---- MODULE Spec2Model ----
(***************************************************************************)
(* BijanBook: the monthly budget store (monthly_budgets, categories,       *)
(* transactions), the budget rollover run by every screen load, and the    *)
(* reports the overview and budget screens derive from the store.          *)
(*                                                                         *)
(* Text values are sequences of character codes, so that SQLite's BINARY   *)
(* comparison (month < ?), LIKE 'prefix%' and the template literals that   *)
(* build month keys are modelled by what they do on characters.            *)
(* Amounts are integers (whole currency units).                            *)
(***************************************************************************)
EXTENDS Integers, Sequences, FiniteSets, TLC

(***************************************************************************)
(* Bounds of the model.                                                    *)
(***************************************************************************)
\* month keys of the model: 2023-12 and the MaxMonthIdx months after it
MaxMonthIdx == 2
\* calls of loadOverview, loadData and changeMonth made in one run
MaxCalls == 3
\* screen loads / changeMonth calls that may be in flight at once
MaxLoads == 2

\* transactions in the store a report is computed from
MaxTx == 3

\* category groups in the store the grouped report is built from
MaxGroups == 2
\* user events in a run of the forms and the categories screen
MaxEvents == 5
\* calls and user events in a run of the budget operations
MaxBudgetCalls == 4
\* categories in the store the flat report is ordered from
MaxFlatCats == 3
\* the largest amount of a transaction in that store
MaxFlatAmount == 3

\* ids of the categories of the model
CategoryIds == {1, 2}
\* the ids of the stored category groups
GroupIds == 1..MaxGroups
\* budget amounts of the model
Amounts == {1, 2}

(***************************************************************************)
(* Text.                                                                   *)
(***************************************************************************)
\* the character code of decimal digit d
Digit(d) == 48 + d

\* "-"
Hyphen == <<45>>

\* "~", the suffix changeMonth appends to the lookup bound
TildeSuffix == <<126>>

\* String(n).padStart(2, "0") for 0 <= n <= 99
Pad2(n) == <<Digit(n \div 10), Digit(n % 10)>>

\* String(n) for a four-digit year
Str4(n) ==
  <<Digit(n \div 1000), Digit((n \div 100) % 10), Digit((n \div 10) % 10), Digit(n % 10)>>

\* `${year}-${String(month).padStart(2, "0")}`
FormatMonth(year, mm) == Str4(year) \o Hyphen \o Pad2(mm)

\* Number(s) for a string of decimal digits
RECURSIVE ParseNumber(_)
ParseNumber(s) ==
  IF s = <<>> THEN 0
  ELSE 10 * ParseNumber(SubSeq(s, 1, Len(s) - 1)) + (s[Len(s)] - 48)

\* month.split("-").map(Number): the text before and after the first "-"
RECURSIVE SplitAtHyphen(_, _)
SplitAtHyphen(s, acc) ==
  IF s = <<>> THEN <<acc, <<>>>>
  ELSE IF s[1] = Hyphen[1] THEN <<acc, Tail(s)>>
  ELSE SplitAtHyphen(Tail(s), Append(acc, s[1]))

\* a < b in SQLite's BINARY collation / JavaScript string order
RECURSIVE StrLess(_, _)
StrLess(a, b) ==
  IF b = <<>> THEN FALSE
  ELSE IF a = <<>> THEN TRUE
  ELSE IF a[1] # b[1] THEN a[1] < b[1]
  ELSE StrLess(Tail(a), Tail(b))

\* s LIKE prefix || '%'
HasPrefix(s, prefix) ==
  /\ Len(s) >= Len(prefix)
  /\ SubSeq(s, 1, Len(prefix)) = prefix

\* new Date(year, monthIndex, 1): the month index is carried into the year
\* (getFullYear(), getMonth()) of the resulting date
DateYear(year, monthIndex) == year + (monthIndex \div 12)

DateMonth(monthIndex) == monthIndex % 12

\* the mutant: the month wraps around and the year stays
shiftMonth_sameYear(month, delta) ==
  LET parts == SplitAtHyphen(month, <<>>)
      year == ParseNumber(parts[1])
      mm == ParseNumber(parts[2])
  IN FormatMonth(year, DateMonth(mm - 1 + delta) + 1)

shiftMonth(month, delta) ==
  LET parts == SplitAtHyphen(month, <<>>)
      year == ParseNumber(parts[1])
      mm == ParseNumber(parts[2])
  IN FormatMonth(DateYear(year, mm - 1 + delta), DateMonth(mm - 1 + delta) + 1)

(***************************************************************************)
(* The month keys of the model, in calendar order.                         *)
(***************************************************************************)
MonthIdx == 0..MaxMonthIdx

\* the i-th month of the model: i months after December 2023
MonthAt(i) == FormatMonth(2023 + ((11 + i) \div 12), ((11 + i) % 12) + 1)

Months == {MonthAt(i) : i \in MonthIdx}

\* the calendar position of a month key of the model
IdxOf(m) == CHOOSE i \in MonthIdx : MonthAt(i) = m

\* no month: the null of `row?.month ?? null`
NoMonth == <<>>

(***************************************************************************)
(* The store (src/db/queries.ts).  A table is the set of its rows.         *)
(*   categories      : [id, name, rule]            name is UNIQUE          *)
(*   transactions    : [id, date, isIncome, amount, categoryId]            *)
(*   monthly_budgets : [categoryId, month, budgetAmount]                   *)
(*                     PRIMARY KEY (categoryId, month)                     *)
(* Category names are numbers standing for distinct texts in name order.   *)
(***************************************************************************)
Rules == {"income", "spending"}

\* SELECT categoryId, budgetAmount FROM monthly_budgets WHERE month = ?
getMonthlyBudgets(mb, month) ==
  {[categoryId |-> r.categoryId, budgetAmount |-> r.budgetAmount] :
     r \in {x \in mb : x.month = month}}

\* the mutant: the row count must exceed 1
hasMonthlyBudgets_moreThanOne(mb, month) ==
  Cardinality({r \in mb : r.month = month}) > 1

\* SELECT COUNT(*) as cnt ... WHERE month = ?; (row?.cnt ?? 0) > 0
hasMonthlyBudgets(mb, month) ==
  Cardinality({r \in mb : r.month = month}) > 0

\* the mutant: ORDER BY month ASC
getMostRecentMonthWithBudgets_oldest(mb, beforeMonth) ==
  LET ms == {r.month : r \in {x \in mb : StrLess(x.month, beforeMonth)}}
  IN IF ms = {} THEN NoMonth
     ELSE CHOOSE m \in ms : \A o \in ms : o = m \/ StrLess(m, o)

\* SELECT DISTINCT month ... WHERE month < ? ORDER BY month DESC LIMIT 1
getMostRecentMonthWithBudgets(mb, beforeMonth) ==
  LET ms == {r.month : r \in {x \in mb : StrLess(x.month, beforeMonth)}}
  IN IF ms = {} THEN NoMonth
     ELSE CHOOSE m \in ms : \A o \in ms : o = m \/ StrLess(o, m)

\* the mutant: the target's rows are deleted first, then the source's inserted
copyBudgetsFromMonth_overwrite(mb, sourceMonth, targetMonth) ==
  LET cleared == {x \in mb : x.month # targetMonth}
  IN cleared \cup {[categoryId |-> r.categoryId, month |-> targetMonth,
                    budgetAmount |-> r.budgetAmount] :
                      r \in {x \in cleared : x.month = sourceMonth}}

\* the mutant: the two months are bound in the wrong order
copyBudgetsFromMonth_swapped(mb, sourceMonth, targetMonth) ==
  LET selected == {x \in mb : x.month = targetMonth}
      fresh == {r \in selected :
                  ~\E x \in mb : x.categoryId = r.categoryId /\ x.month = sourceMonth}
  IN mb \cup {[categoryId |-> r.categoryId, month |-> sourceMonth,
               budgetAmount |-> r.budgetAmount] : r \in fresh}

\* INSERT OR IGNORE INTO monthly_budgets SELECT categoryId, ?, budgetAmount
\* FROM monthly_budgets WHERE month = ?: a row whose key exists is skipped
copyBudgetsFromMonth(mb, sourceMonth, targetMonth) ==
  LET selected == {x \in mb : x.month = sourceMonth}
      fresh == {r \in selected :
                  ~\E x \in mb : x.categoryId = r.categoryId /\ x.month = targetMonth}
  IN mb \cup {[categoryId |-> r.categoryId, month |-> targetMonth,
               budgetAmount |-> r.budgetAmount] : r \in fresh}

\* the mutant: only a negative amount deletes the row, 0 is stored
setMonthlyBudget_zeroStored(mb, categoryId, month, budgetAmount) ==
  LET others == {x \in mb : ~(x.categoryId = categoryId /\ x.month = month)}
  IN IF budgetAmount = {} \/ (\E n \in budgetAmount : n < 0)
     THEN others
     ELSE others \cup {[categoryId |-> categoryId, month |-> month,
                        budgetAmount |-> n] : n \in budgetAmount}

\* the mutant: the statements have no month condition
setMonthlyBudget_everyMonth(mb, categoryId, month, budgetAmount) ==
  LET others == {x \in mb : x.categoryId # categoryId}
  IN IF budgetAmount = {} \/ (\E n \in budgetAmount : n <= 0)
     THEN others
     ELSE others \cup {[categoryId |-> categoryId, month |-> month,
                        budgetAmount |-> n] : n \in budgetAmount}

\* budgetAmount is the set {} for null and {n} for the number n
setMonthlyBudget(mb, categoryId, month, budgetAmount) ==
  LET others == {x \in mb : ~(x.categoryId = categoryId /\ x.month = month)}
  IN IF budgetAmount = {} \/ (\E n \in budgetAmount : n <= 0)
     THEN others
     ELSE others \cup {[categoryId |-> categoryId, month |-> month,
                        budgetAmount |-> n] : n \in budgetAmount}

\* SELECT c.* ... FROM categories c ... ORDER BY c.name ASC
RECURSIVE getAllCategories(_)
getAllCategories(cats) ==
  IF cats = {} THEN <<>>
  ELSE LET first == CHOOSE c \in cats : \A o \in cats : c.name <= o.name
       IN <<first>> \o getAllCategories(cats \ {first})

\* ORDER BY date DESC, id DESC
TxBefore(a, b) == StrLess(b.date, a.date) \/ (a.date = b.date /\ a.id > b.id)

RECURSIVE TxOrdered(_)
TxOrdered(txs) ==
  IF txs = {} THEN <<>>
  ELSE LET first == CHOOSE t \in txs : \A o \in txs : o = t \/ TxBefore(t, o)
       IN <<first>> \o TxOrdered(txs \ {first})

\* SELECT ... FROM transactions WHERE date LIKE ? ORDER BY date DESC, id DESC
\* with the pattern `${month}%`
getTransactionsByMonth(txs, month) ==
  TxOrdered({t \in txs : HasPrefix(t.date, month)})

\* SELECT * FROM category_groups ORDER BY sortOrder ASC, id ASC
RECURSIVE getCategoryGroups(_)
getCategoryGroups(groups) ==
  IF groups = {} THEN <<>>
  ELSE LET first == CHOOSE g \in groups : \A o \in groups :
                      \/ g.sortOrder < o.sortOrder
                      \/ (g.sortOrder = o.sortOrder /\ g.id <= o.id)
       IN <<first>> \o getCategoryGroups(groups \ {first})

(***************************************************************************)
(* Aggregation (src/utils/signedAmount.ts, src/app/index.tsx 42-56,        *)
(* budget screen 120-132).  A JavaScript Record<number, number> is a       *)
(* function whose domain is the set of keys that were assigned.            *)
(***************************************************************************)
\* the mutant: the sign is not applied
getSignedAmount_unsigned(amount, isIncome) == amount

getSignedAmount(amount, isIncome) == IF isIncome THEN amount ELSE 0 - amount

EmptyRecord == [k \in {} |-> 0]

\* record[key] ?? 0
OrZero(record, key) == IF key \in DOMAIN record THEN record[key] ELSE 0

\* record[key] = value
Assign(record, key, value) ==
  [k \in DOMAIN record \cup {key} |-> IF k = key THEN value ELSE record[k]]

\* for (const c of categories) catMap[c.id] = c
CatMap(catSeq) ==
  [id \in {catSeq[i].id : i \in 1..Len(catSeq)} |->
     CHOOSE c \in {catSeq[i] : i \in 1..Len(catSeq)} : c.id = id]

\* for (const b of budgets) budgetMap[b.categoryId] = b.budgetAmount
BudgetMap(budgetRows) ==
  [id \in {b.categoryId : b \in budgetRows} |->
     (CHOOSE b \in budgetRows : b.categoryId = id).budgetAmount]

\* the mutant: the `if (!cat) continue` guard is missing
RECURSIVE Accumulate_noGuard(_, _, _)
Accumulate_noGuard(txSeq, catMap, acc) ==
  IF txSeq = <<>> THEN acc
  ELSE LET tx == Head(txSeq)
           signed == getSignedAmount(tx.amount, tx.isIncome = 1)
       IN Accumulate_noGuard(Tail(txSeq), catMap,
            Assign(acc, tx.categoryId, OrZero(acc, tx.categoryId) + signed))

\* for (const tx of transactions) { const cat = catMap[tx.categoryId];
\*   if (!cat) continue; ...; spentByCategory[id] = (spentByCategory[id] ?? 0) + signed }
RECURSIVE Accumulate(_, _, _)
Accumulate(txSeq, catMap, acc) ==
  IF txSeq = <<>> THEN acc
  ELSE LET tx == Head(txSeq)
           signed == getSignedAmount(tx.amount, tx.isIncome = 1)
       IN IF tx.categoryId \notin DOMAIN catMap
          THEN Accumulate(Tail(txSeq), catMap, acc)
          ELSE Accumulate(Tail(txSeq), catMap,
                 Assign(acc, tx.categoryId, OrZero(acc, tx.categoryId) + signed))

(***************************************************************************)
(* The overview report (src/app/index.tsx, loadOverview 58-120).           *)
(***************************************************************************)
\* the mutant: every positive net counts as income, whatever the category's rule
RECURSIVE DeriveIncome_anyPositive(_, _, _)
DeriveIncome_anyPositive(keys, spentByCategory, catMap) ==
  IF keys = {} THEN 0
  ELSE LET k == CHOOSE x \in keys : TRUE
       IN (IF k \in DOMAIN catMap /\ spentByCategory[k] > 0
           THEN spentByCategory[k] ELSE 0)
          + DeriveIncome_anyPositive(keys \ {k}, spentByCategory, catMap)

\* for (const [catId, rawNet] of Object.entries(spentByCategory)):
\*   if (cat.rule === "income") income += rawNet
RECURSIVE DeriveIncome(_, _, _)
DeriveIncome(keys, spentByCategory, catMap) ==
  IF keys = {} THEN 0
  ELSE LET k == CHOOSE x \in keys : TRUE
       IN (IF k \in DOMAIN catMap /\ catMap[k].rule = "income"
           THEN spentByCategory[k] ELSE 0)
          + DeriveIncome(keys \ {k}, spentByCategory, catMap)

\*   else spending += -rawNet
RECURSIVE DeriveSpending(_, _, _)
DeriveSpending(keys, spentByCategory, catMap) ==
  IF keys = {} THEN 0
  ELSE LET k == CHOOSE x \in keys : TRUE
       IN (IF k \in DOMAIN catMap /\ catMap[k].rule # "income"
           THEN 0 - spentByCategory[k] ELSE 0)
          + DeriveSpending(keys \ {k}, spentByCategory, catMap)

\* the mutant: the net is reported as it is, for either rule
OverviewSpent_raw(rule, rawNet) == rawNet

\* const spent = c.rule === "spending" ? -rawNet : rawNet
OverviewSpent(rule, rawNet) == IF rule = "spending" THEN 0 - rawNet ELSE rawNet

\* catBudget !== null && catBudget > 0, for a budget that is {} (null) or {n}
HasBudget(budgetAmount) == \E n \in budgetAmount : n > 0

\* pctUsed = hasBudget ? (spent / catBudget) * 100 : 0, kept as the exact
\* fraction num / den with den > 0
PctUsed(spent, budgetAmount) ==
  IF HasBudget(budgetAmount)
  THEN [num |-> spent * 100, den |-> CHOOSE n \in budgetAmount : TRUE]
  ELSE [num |-> 0, den |-> 1]

\* the row loadOverview builds for category c
OverviewRow(c, spentByCategory, budgetMap) ==
  LET rawNet == OrZero(spentByCategory, c.id)
      spent == OverviewSpent(c.rule, rawNet)
      catBudget == IF c.id \in DOMAIN budgetMap THEN {budgetMap[c.id]} ELSE {}
  IN [id |-> c.id, name |-> c.name, rule |-> c.rule, spent |-> spent,
      budgetAmount |-> catBudget, pctUsed |-> PctUsed(spent, catBudget)]

\* the mutant: every row without spending is skipped, budget or not
OverviewSkips_noSpending(row) == row.spent = 0

\* if (spent === 0 && (catBudget === null || catBudget === 0)) continue
OverviewSkips(row) ==
  row.spent = 0 /\ (row.budgetAmount = {} \/ 0 \in row.budgetAmount)

\* the rows of all categories, in the order of the category list
OverviewRows(catSeq, spentByCategory, budgetMap) ==
  [i \in 1..Len(catSeq) |-> OverviewRow(catSeq[i], spentByCategory, budgetMap)]

Keep(row) == ~OverviewSkips(row)
IsIncomeRow(row) == Keep(row) /\ row.rule = "income"
IsSpendingRow(row) == Keep(row) /\ row.rule # "income"

\* if (hasBudget) budgeted += catBudget, over the rows pushed to spendingCats
RECURSIVE SumBudgets(_)
SumBudgets(rows) ==
  IF rows = <<>> THEN 0
  ELSE (IF HasBudget(Head(rows).budgetAmount)
        THEN CHOOSE n \in Head(rows).budgetAmount : TRUE ELSE 0)
       + SumBudgets(Tail(rows))

Sign(n) == IF n > 0 THEN 1 ELSE IF n < 0 THEN 0 - 1 ELSE 0

\* a.pctUsed > 100
IsOver(row) == row.pctUsed.num > 100 * row.pctUsed.den

\* the mutant: budgeted rows are compared by a.pctUsed - b.pctUsed
CompareSpending_ascending(a, b) ==
  LET aHasBudget == HasBudget(a.budgetAmount)
      bHasBudget == HasBudget(b.budgetAmount)
  IN IF aHasBudget /\ ~bHasBudget THEN 0 - 1
     ELSE IF ~aHasBudget /\ bHasBudget THEN 1
     ELSE IF aHasBudget /\ bHasBudget
          THEN Sign(a.pctUsed.num * b.pctUsed.den - b.pctUsed.num * a.pctUsed.den)
     ELSE Sign(b.spent - a.spent)

\* the comparator of spendingCats.sort: negative when a sorts before b
CompareSpending(a, b) ==
  LET aHasBudget == HasBudget(a.budgetAmount)
      bHasBudget == HasBudget(b.budgetAmount)
      aOver == IF IsOver(a) THEN 1 ELSE 0
      bOver == IF IsOver(b) THEN 1 ELSE 0
  IN IF aHasBudget /\ ~bHasBudget THEN 0 - 1
     ELSE IF ~aHasBudget /\ bHasBudget THEN 1
     ELSE IF aHasBudget /\ bHasBudget
          THEN IF aOver # bOver THEN bOver - aOver
               ELSE Sign(b.pctUsed.num * a.pctUsed.den - a.pctUsed.num * b.pctUsed.den)
     ELSE Sign(b.spent - a.spent)

\* Array.prototype.sort is stable: a row goes before the first row that
\* must come after it
RECURSIVE InsertSpending(_, _)
InsertSpending(sorted, row) ==
  IF sorted = <<>> THEN <<row>>
  ELSE IF CompareSpending(Head(sorted), row) > 0 THEN <<row>> \o sorted
  ELSE <<Head(sorted)>> \o InsertSpending(Tail(sorted), row)

RECURSIVE SortSpending(_)
SortSpending(rows) ==
  IF rows = <<>> THEN <<>>
  ELSE InsertSpending(SortSpending(SubSeq(rows, 1, Len(rows) - 1)), rows[Len(rows)])

\* the view state loadOverview sets from what it read; forMonth (the month the
\* load closed over), copiedFrom (the month its rollover copied from, if it
\* copied) and spentByCategory (its local map) are kept for reference
OverviewOf(forMonth, copiedFrom, txSeq, catSeq, budgetRows) ==
  LET catMap == CatMap(catSeq)
      budgetMap == BudgetMap(budgetRows)
      spentByCategory == Accumulate(txSeq, catMap, EmptyRecord)
      rows == OverviewRows(catSeq, spentByCategory, budgetMap)
      spendingCats == SelectSeq(rows, IsSpendingRow)
  IN [forMonth |-> forMonth, copiedFrom |-> copiedFrom,
      spentByCategory |-> spentByCategory,
      totalIncome |-> DeriveIncome(DOMAIN spentByCategory, spentByCategory, catMap),
      totalSpending |-> DeriveSpending(DOMAIN spentByCategory, spentByCategory, catMap),
      totalBudgeted |-> SumBudgets(spendingCats),
      spendingCategories |-> SortSpending(spendingCats),
      incomeCategories |-> SelectSeq(rows, IsIncomeRow),
      txCount |-> Len(txSeq)]

\* useState(0), useState([]) of OverviewScreen
OverviewInitial ==
  [forMonth |-> NoMonth, copiedFrom |-> NoMonth, spentByCategory |-> EmptyRecord,
   totalIncome |-> 0, totalSpending |-> 0,
   totalBudgeted |-> 0, spendingCategories |-> <<>>, incomeCategories |-> <<>>,
   txCount |-> 0]

(***************************************************************************)
(* The budget screen's report (budget screen, loadData 120-158).           *)
(***************************************************************************)
\* the mutant: the net is reported as it is, for either rule
BudgetActual_raw(rule, rawNet) == rawNet

\* actual: c.rule === "spending" ? -rawNet : rawNet
BudgetActual(rule, rawNet) == IF rule = "spending" THEN 0 - rawNet ELSE rawNet

\* categories.map((c) => ({ ... }))
BudgetRowOf(c, actuals, budgetMap) ==
  [id |-> c.id, name |-> c.name, rule |-> c.rule,
   budgetAmount |-> IF c.id \in DOMAIN budgetMap THEN {budgetMap[c.id]} ELSE {},
   actual |-> BudgetActual(c.rule, OrZero(actuals, c.id)),
   groupId |-> c.groupId]

\* tBudget: spending rows with a budget above 0
RECURSIVE TotalBudget(_)
TotalBudget(rows) ==
  IF rows = <<>> THEN 0
  ELSE (IF Head(rows).rule = "spending" /\ HasBudget(Head(rows).budgetAmount)
        THEN CHOOSE n \in Head(rows).budgetAmount : TRUE ELSE 0)
       + TotalBudget(Tail(rows))

\* tSpent: spending rows with actual above 0
RECURSIVE TotalSpent(_)
TotalSpent(rows) ==
  IF rows = <<>> THEN 0
  ELSE (IF Head(rows).rule = "spending" /\ Head(rows).actual > 0
        THEN Head(rows).actual ELSE 0)
       + TotalSpent(Tail(rows))

(***************************************************************************)
(* The grouped report (budget screen, buildGroupSections 52-92).  A bucket *)
(* key is "income", "unassigned" or String(g.id) for a stored group.       *)
(***************************************************************************)
IncomeKey == [bucket |-> "income", id |-> 0]
UnassignedKey == [bucket |-> "unassigned", id |-> 0]
GroupKey(id) == [bucket |-> "group", id |-> id]

\* the keys groupMap has: one per stored group, and the two fixed ones
GroupMapKeys(groups) ==
  {GroupKey(groups[i].id) : i \in 1..Len(groups)} \cup {IncomeKey, UnassignedKey}

\* the mutant: the rule is not looked at, every row goes by its groupId
BucketOf_byGroup(row, groups) ==
  LET key == IF row.groupId # {}
             THEN GroupKey(CHOOSE g \in row.groupId : TRUE)
             ELSE UnassignedKey
  IN IF key \in GroupMapKeys(groups) THEN key ELSE UnassignedKey

\* the bucket a row is pushed to: income rows to "income", the others to
\* groupMap[key] ?? groupMap["unassigned"]
BucketOf(row, groups) ==
  IF row.rule = "income" THEN IncomeKey
  ELSE LET key == IF row.groupId # {}
                  THEN GroupKey(CHOOSE g \in row.groupId : TRUE)
                  ELSE UnassignedKey
       IN IF key \in GroupMapKeys(groups) THEN key ELSE UnassignedKey

\* bucket.rows: the rows pushed to the bucket, in the order of rows
RECURSIVE BucketRows(_, _, _)
BucketRows(rows, groups, key) ==
  IF rows = <<>> THEN <<>>
  ELSE (IF BucketOf(Head(rows), groups) = key THEN <<Head(rows)>> ELSE <<>>)
       \o BucketRows(Tail(rows), groups, key)

\* if (row.budgetAmount) bucket.budgeted += row.budgetAmount
RECURSIVE BucketBudgeted(_)
BucketBudgeted(rows) ==
  IF rows = <<>> THEN 0
  ELSE (IF \E n \in Head(rows).budgetAmount : n # 0
        THEN CHOOSE n \in Head(rows).budgetAmount : TRUE ELSE 0)
       + BucketBudgeted(Tail(rows))

\* the mutant: every actual is added, profit included
RECURSIVE BucketSpent_net(_)
BucketSpent_net(rows) ==
  IF rows = <<>> THEN 0
  ELSE Head(rows).actual + BucketSpent_net(Tail(rows))

\* if (row.actual > 0) bucket.spent += row.actual
RECURSIVE BucketSpent(_)
BucketSpent(rows) ==
  IF rows = <<>> THEN 0
  ELSE (IF Head(rows).actual > 0 THEN Head(rows).actual ELSE 0)
       + BucketSpent(Tail(rows))

\* the GroupSection of a key once all rows are pushed
SectionOf(key, label, rows, groups) ==
  LET members == BucketRows(rows, groups, key)
  IN [key |-> key, label |-> label, budgeted |-> BucketBudgeted(members),
      spent |-> BucketSpent(members), rows |-> members]

\* the mutant: a section is listed when a row has an actual or a budget
Listed_active(section) ==
  \E i \in 1..Len(section.rows) :
    section.rows[i].actual # 0 \/ section.rows[i].budgetAmount # {}

\* a section is listed: s.rows.length > 0
Listed(section) == Len(section.rows) > 0

\* the mutant: named groups are listed by ascending id
NamedSections_byId(rows, groups) ==
  LET ids == {groups[i].id : i \in 1..Len(groups)}
      byId == [i \in 1..Len(groups) |->
                 CHOOSE j \in 1..Len(groups) :
                   Cardinality({k \in ids : k < groups[j].id}) = i - 1]
  IN SelectSeq([i \in 1..Len(groups) |->
                  SectionOf(GroupKey(groups[byId[i]].id), groups[byId[i]].name, rows, groups)],
               Listed)

\* groups.map((g) => groupMap[String(g.id)]).filter((s) => s.rows.length > 0)
NamedSections(rows, groups) ==
  SelectSeq([i \in 1..Len(groups) |->
               SectionOf(GroupKey(groups[i].id), groups[i].name, rows, groups)],
            Listed)

\* the labels "Income" and "Unassigned", as codes that are no group's name
IncomeLabel == 0 - 1
UnassignedLabel == 0 - 2

\* Income first, then named groups (sorted from DB), then Unassigned last
buildGroupSections(rows, groups) ==
  SelectSeq(<<SectionOf(IncomeKey, IncomeLabel, rows, groups)>>, Listed)
    \o NamedSections(rows, groups)
    \o SelectSeq(<<SectionOf(UnassignedKey, UnassignedLabel, rows, groups)>>, Listed)

\* the view state loadData sets from what it read; forMonth, copiedFrom and
\* actuals (the load's local map) are kept for reference
BudgetViewOf(forMonth, copiedFrom, txSeq, catSeq, budgetRows, groupSeq) ==
  LET catMap == CatMap(catSeq)
      budgetMap == BudgetMap(budgetRows)
      actuals == Accumulate(txSeq, catMap, EmptyRecord)
      budgetRowSeq == [i \in 1..Len(catSeq) |-> BudgetRowOf(catSeq[i], actuals, budgetMap)]
  IN [forMonth |-> forMonth, copiedFrom |-> copiedFrom, actuals |-> actuals,
      rows |-> budgetRowSeq, groups |-> groupSeq,
      totalBudget |-> TotalBudget(budgetRowSeq),
      totalSpent |-> TotalSpent(budgetRowSeq)]

\* useState([]), useState(0) of BudgetScreen
BudgetInitial ==
  [forMonth |-> NoMonth, copiedFrom |-> NoMonth, actuals |-> EmptyRecord,
   rows |-> <<>>, groups |-> <<>>,
   totalBudget |-> 0, totalSpent |-> 0]

(***************************************************************************)
(* The statements of the transaction, category and group operations        *)
(* (queries.ts), each on the table it changes or reads.                    *)
(***************************************************************************)
\* INSERT INTO transactions (...) VALUES (...): the row gets the next id
insertTransaction(txs, id, tx) ==
  txs \cup {[id |-> id, date |-> tx.date, isIncome |-> tx.isIncome, amount |-> tx.amount,
             categoryId |-> tx.categoryId]}

\* DELETE FROM transactions WHERE id = ?
deleteTransaction(txs, id) == {t \in txs : t.id # id}

\* UPDATE transactions SET date = ?, ..., categoryId = ? WHERE id = ?
updateTransaction(txs, id, tx) ==
  {IF t.id = id
   THEN [id |-> id, date |-> tx.date, isIncome |-> tx.isIncome, amount |-> tx.amount,
         categoryId |-> tx.categoryId]
   ELSE t : t \in txs}

\* SELECT ... FROM transactions WHERE id = ?: the row, or none
getTransactionById(txs, id) == {t \in txs : t.id = id}

\* SELECT COUNT(*) as cnt FROM transactions WHERE date LIKE month%
countTransactionsByMonth(txs, month) == Cardinality({t \in txs : HasPrefix(t.date, month)})

\* DELETE FROM transactions WHERE date LIKE month%
deleteTransactionsByMonth(txs, month) == {t \in txs : ~HasPrefix(t.date, month)}

\* the mutant: the rows of every month are deleted
deleteMonthlyBudgetsByMonth_all(mb, month) == {}

\* DELETE FROM monthly_budgets WHERE month = ?
deleteMonthlyBudgetsByMonth(mb, month) == {r \in mb : r.month # month}

\* INSERT INTO categories (name, rule) VALUES (?, ?): the row gets the next
\* id and no group
insertCategory(cats, id, name, rule) ==
  cats \cup {[id |-> id, name |-> name, rule |-> rule, groupId |-> {}]}

\* deleteCategory: DELETE FROM monthly_budgets WHERE categoryId = ?
deleteCategoryBudgets(mb, id) == {r \in mb : r.categoryId # id}

\* deleteCategory: DELETE FROM categories WHERE id = ?
deleteCategory(cats, id) == {c \in cats : c.id # id}

\* SELECT categoryId, COUNT(*) as cnt FROM transactions GROUP BY categoryId,
\* as the Record the loop builds
getTransactionCountsByCategory(txs) ==
  [id \in {t.categoryId : t \in txs} |-> Cardinality({t \in txs : t.categoryId = id})]

\* the mutant: the categories of the group are deleted with it
deleteCategoryGroup_cascade(cats, id) == {c \in cats : c.groupId # {id}}

\* deleteCategoryGroup: UPDATE categories SET groupId = NULL WHERE groupId = ?
deleteCategoryGroup(cats, id) ==
  {IF c.groupId = {id} THEN [c EXCEPT !.groupId = {}] ELSE c : c \in cats}

\* deleteCategoryGroup: DELETE FROM category_groups WHERE id = ?
deleteCategoryGroupRow(groups, id) == {g \in groups : g.id # id}

\* the id AUTOINCREMENT gives next on a table whose highest id was never
\* deleted: one above the highest
NextId(rows) ==
  IF rows = {} THEN 1
  ELSE 1 + (CHOOSE n \in {r.id : r \in rows} : \A r \in rows : r.id <= n)

\* useState(...) of AddScreen, before its mount effect has run
AddFormInitial ==
  [mounted |-> FALSE, categories |-> <<>>, categoryId |-> {}, isIncome |-> FALSE]

\* useState(...) of EditScreen, before it is opened for a transaction
EditFormInitial ==
  [id |-> {}, categories |-> <<>>, categoryId |-> {}, isIncome |-> FALSE,
   date |-> NoMonth, amount |-> 0]

\* useState(...) of CategoriesScreen; reloading tells that a reload() is
\* called and its Promise.all has not resolved
CategoriesInitial ==
  [categories |-> <<>>, txCounts |-> EmptyRecord, groups |-> <<>>, reloading |-> FALSE]

\* no deletion was made from the categories screen yet
NothingDeleted == [op |-> "none", id |-> 0, categories |-> {}]

\* no Alert was shown
NoAlert == {}

\* no load was started and no budget was cleared
NoHistory == [overview |-> NoMonth, budget |-> NoMonth, cleared |-> {}, late |-> {}]

\* no file was exported and no import was run
SettingsInitial == [file |-> {}, source |-> {}, count |-> {}, failed |-> FALSE]

\* the text of an empty input field
NoName == 0

\* useState<CategoryGroup[]>([]) and useState("") of GroupsScreen
GroupsInitial == [groups |-> <<>>, newName |-> NoName]

(***************************************************************************)
(* State.                                                                  *)
(***************************************************************************)
VARIABLES
  categories,       \* the categories table
  nextCategoryId,   \* AUTOINCREMENT: the id the next inserted category gets
  category_groups,  \* the category_groups table
  transactions,     \* the transactions table
  monthly_budgets,  \* the monthly_budgets table
  month,            \* MonthContext: the selected month
  overview,         \* OverviewScreen's view state
  budget,           \* BudgetScreen's view state
  loads,            \* the calls of loadOverview, loadData and changeMonth in flight
  callsLeft,        \* how many more such calls, or user events, the run may make
  nextTransactionId,  \* AUTOINCREMENT: the id the next inserted transaction gets
  screen,           \* the screen in focus among "add", "edit", "transactions" and
                    \* "categories"; "other" stands for every other screen
  addForm,          \* AddScreen's state
  editForm,         \* EditScreen's state
  catScreen,        \* CategoriesScreen's state
  deleted,          \* history: the last deletion made from the categories screen
                    \* and the categories table it was made on
  nextGroupId,      \* the id AUTOINCREMENT gives the next category_groups row
  groupScreen,      \* GroupsScreen's state
  dbQueue,          \* the statements issued to the database and not yet run,
                    \* in the order they were issued
  settings,         \* SettingsScreen: the file handleExport wrote and the outcome
                    \* of the last importTransactions; history: the transactions
                    \* table the file was exported from
  alert,            \* the message of the Alert a form or handleReset showed last
  history           \* history: the month of the load each screen started last,
                    \* the budgets the user cleared and did not set again, and
                    \* the loads started since the last of them was cleared

storeVars == <<categories, nextCategoryId, category_groups, transactions, monthly_budgets>>
viewVars == <<overview, budget>>
uiVars == <<nextTransactionId, screen, addForm, editForm, catScreen, deleted>>
orderVars == <<nextGroupId, groupScreen, dbQueue>>
vars == <<categories, nextCategoryId, category_groups, transactions, monthly_budgets,
          month, overview, budget, loads, callsLeft,
          nextTransactionId, screen, addForm, editForm, catScreen, deleted,
          nextGroupId, groupScreen, dbQueue, settings, alert, history>>

Slots == 1..MaxLoads

(***************************************************************************)
(* One call in flight.  pc is the await it is suspended at:                *)
(*   "has"  await hasMonthlyBudgets(month)                                 *)
(*   "find" await getMostRecentMonthWithBudgets(...)                       *)
(*   "copy" await copyBudgetsFromMonth(prevMonth, month)                   *)
(*   "read" await getMonthOverviewData(month) / Promise.all([...])         *)
(*   "return" changeMonth is about to return                               *)
(* month is the month the call closed over.  Two fields only record        *)
(* history: before is the table as the call's existence check saw it, and  *)
(* clean tells that since that check the table was changed by nothing but  *)
(* rollovers for the same month that are clean themselves.  A call that    *)
(* has ended leaves its slot.                                              *)
(***************************************************************************)
IdleLoad ==
  [kind |-> "none", pc |-> "idle", month |-> NoMonth, hasBudgets |-> FALSE,
   prevMonth |-> NoMonth, before |-> {}, clean |-> TRUE]

StartedLoad(kind, m) ==
  [kind |-> kind, pc |-> "has", month |-> m, hasBudgets |-> FALSE,
   prevMonth |-> NoMonth, before |-> {}, clean |-> TRUE]

Free(p) == loads[p].pc = "idle"

\* the slot a new call takes: the lowest one not in flight
FreeSlot == CHOOSE p \in Slots : Free(p) /\ \A q \in Slots : Free(q) => p <= q

\* a call can be made: the run has calls left and a slot is free
CanCall == callsLeft > 0 /\ \E p \in Slots : Free(p)

Checked(l) == l.pc \in {"find", "copy", "read", "return"}

\* the history fields after the table went from mb to mb2: by the copy of
\* the call in slot p, or (p = 0) by a write that is no rollover
Noted(ls, p, mb, mb2) ==
  [q \in Slots |->
     IF /\ q # p
        /\ Checked(ls[q])
        /\ mb2 # mb
        /\ (p = 0 \/ ls[q].month # ls[p].month \/ ~ls[p].clean)
     THEN [ls[q] EXCEPT !.clean = FALSE]
     ELSE ls[q]]

\* the history once a screen's load was started in slot p: a load started
\* while a cleared budget is remembered is later than the clearing
LoadNoted(h, p) == IF h.cleared = {} THEN h ELSE [h EXCEPT !.late = @ \cup {p}]

\* the history once saveEdit took the table from mb to mb2 for category id
\* and month m and started its load in slot p: a row that was deleted is
\* remembered as cleared, and only the load started now is later than that;
\* a row that was set is cleared no more
EditNoted(h, p, mb, mb2, id, m) ==
  LET had == \E r \in mb : r.categoryId = id /\ r.month = m
      has == \E r \in mb2 : r.categoryId = id /\ r.month = m
  IN IF had /\ ~has THEN [h EXCEPT !.cleared = @ \cup {<<id, m>>}, !.late = {p}]
     ELSE IF has THEN LoadNoted([h EXCEPT !.cleared = @ \ {<<id, m>>}], p)
     ELSE LoadNoted(h, p)

\* where a call continues once its rollover is over: changeMonth returns,
\* the screens go on to read the month's data
AfterRollover(kind) == IF kind = "changeMonth" THEN "return" ELSE "read"

\* the mutant: the copy is skipped
AfterLookup_noCopy(kind, prevMonth) == AfterRollover(kind)

\* if (prevMonth) await copyBudgetsFromMonth(prevMonth, month)
AfterLookup(kind, prevMonth) ==
  IF prevMonth # NoMonth THEN "copy" ELSE AfterRollover(kind)

\* the mutant: every entry point passes the month followed by "~"
LookupBound_inclusive(kind, m) == m \o TildeSuffix

\* the bound passed to getMostRecentMonthWithBudgets: month in loadOverview
\* and loadData, next + "~" in changeMonth
LookupBound(kind, m) == IF kind = "changeMonth" THEN m \o TildeSuffix ELSE m

(***************************************************************************)
(* Actions.                                                                *)
(***************************************************************************)
\* what the screens' own state is once RootLayout and the screens are
\* constructed: nothing is in flight and the views are empty
Constructed ==
  /\ overview = OverviewInitial
  /\ budget = BudgetInitial
  /\ loads = [p \in Slots |-> IdleLoad]
  /\ nextTransactionId = NextId(transactions)
  /\ screen = "other"
  /\ addForm = AddFormInitial
  /\ editForm = EditFormInitial
  /\ catScreen = CategoriesInitial
  /\ deleted = NothingDeleted
  /\ nextGroupId = NextId(category_groups)
  /\ groupScreen = GroupsInitial
  /\ dbQueue = <<>>
  /\ settings = SettingsInitial
  /\ alert = NoAlert
  /\ history = NoHistory

\* the app once MonthProvider is ready: the selected month is a month key
Started ==
  /\ month \in Months
  /\ Constructed

\* what one month of monthly_budgets holds, as (categoryId, budgetAmount)
\* pairs: nothing, a budget for one category only, a budget for each
MonthPatterns == {{}, {<<1, 1>>}, {<<1, 2>>, <<2, 1>>}}

\* the monthly_budgets tables earlier sessions can have left: one of the
\* patterns in each month
BudgetTables ==
  {{[categoryId |-> k[1], month |-> m, budgetAmount |-> k[2]] :
      <<m, k>> \in {x \in Months \X (CategoryIds \X Amounts) : x[2] \in f[x[1]]}} :
        f \in [Months -> MonthPatterns]}

\* The store is a file that outlives the app: the app starts on the store
\* earlier sessions left.  Here: a spending and an income category, no
\* transactions, and any table of budgets.
Init ==
  /\ categories = {[id |-> 1, name |-> 2, rule |-> "spending", groupId |-> {}],
                   [id |-> 2, name |-> 1, rule |-> "income", groupId |-> {}]}
  /\ nextCategoryId = 3
  /\ category_groups = {}
  /\ transactions = {}
  /\ monthly_budgets \in BudgetTables
  /\ Started
  /\ callsLeft = MaxCalls

\* OverviewScreen gains focus: loadOverview() is called
FocusOverview ==
  /\ CanCall
  /\ loads' = [loads EXCEPT ![FreeSlot] = StartedLoad("overview", month)]
  /\ history' = [LoadNoted(history, FreeSlot) EXCEPT !.overview = month]
  /\ callsLeft' = callsLeft - 1
  /\ UNCHANGED <<orderVars, settings, alert, uiVars, storeVars, month, viewVars>>

\* BudgetScreen gains focus or is pulled to refresh: loadData() is called
FocusBudget ==
  /\ CanCall
  /\ loads' = [loads EXCEPT ![FreeSlot] = StartedLoad("budget", month)]
  /\ history' = [LoadNoted(history, FreeSlot) EXCEPT !.budget = month]
  /\ callsLeft' = callsLeft - 1
  /\ UNCHANGED <<orderVars, settings, alert, uiVars, storeVars, month, viewVars>>

\* settings screen: changeMonth(delta) up to its first await
ChangeMonth(delta) ==
  LET next == shiftMonth(month, delta)
  IN /\ next \in Months
     /\ CanCall
     /\ month' = next
     /\ loads' = [loads EXCEPT ![FreeSlot] = StartedLoad("changeMonth", next)]
     /\ callsLeft' = callsLeft - 1
     /\ UNCHANGED <<orderVars, settings, alert, history, uiVars, storeVars, viewVars>>

\* const hasBudgets = await hasMonthlyBudgets(month)
HasStep(p) ==
  /\ loads[p].pc = "has"
  /\ LET l == loads[p]
         has == hasMonthlyBudgets(monthly_budgets, l.month)
     IN loads' = [loads EXCEPT ![p] =
          [l EXCEPT !.hasBudgets = has,
                    !.pc = IF has THEN AfterRollover(l.kind) ELSE "find",
                    !.before = monthly_budgets,
                    !.clean = TRUE]]
  /\ UNCHANGED <<orderVars, settings, alert, history, uiVars, storeVars, month, viewVars, callsLeft>>

\* const prevMonth = await getMostRecentMonthWithBudgets(...)
FindStep(p) ==
  /\ loads[p].pc = "find"
  /\ LET l == loads[p]
         prev == getMostRecentMonthWithBudgets(monthly_budgets, LookupBound(l.kind, l.month))
     IN loads' = [loads EXCEPT ![p] =
          [l EXCEPT !.prevMonth = prev, !.pc = AfterLookup(l.kind, prev)]]
  /\ UNCHANGED <<orderVars, settings, alert, history, uiVars, storeVars, month, viewVars, callsLeft>>

\* await copyBudgetsFromMonth(prevMonth, month)
CopyStep(p) ==
  /\ loads[p].pc = "copy"
  /\ LET l == loads[p]
         mb2 == copyBudgetsFromMonth(monthly_budgets, l.prevMonth, l.month)
     IN /\ monthly_budgets' = mb2
        /\ loads' = [Noted(loads, p, monthly_budgets, mb2)
                       EXCEPT ![p].pc = AfterRollover(l.kind)]
  /\ UNCHANGED <<orderVars, settings, alert, history, uiVars, categories, nextCategoryId, category_groups, transactions, month,
                 viewVars, callsLeft>>

\* the rest of loadOverview / loadData: the month's data is read and the
\* view state is set from it
ReadStep(p) ==
  /\ loads[p].pc = "read"
  /\ LET l == loads[p]
         txSeq == getTransactionsByMonth(transactions, l.month)
         catSeq == getAllCategories(categories)
         budgetRows == getMonthlyBudgets(monthly_budgets, l.month)
     IN /\ loads' = [loads EXCEPT ![p] = IdleLoad]
        /\ history' = [history EXCEPT !.late = @ \ {p}]
        /\ IF l.kind = "overview"
           THEN /\ overview' = OverviewOf(l.month, l.prevMonth, txSeq, catSeq, budgetRows)
                /\ UNCHANGED budget
           ELSE /\ budget' = BudgetViewOf(l.month, l.prevMonth, txSeq, catSeq, budgetRows,
                                           getCategoryGroups(category_groups))
                /\ UNCHANGED overview
  /\ UNCHANGED <<orderVars, settings, alert, uiVars, storeVars, month, callsLeft>>

\* changeMonth returns
ReturnStep(p) ==
  /\ loads[p].pc = "return"
  /\ loads' = [loads EXCEPT ![p] = IdleLoad]
  /\ UNCHANGED <<orderVars, settings, alert, history, uiVars, storeVars, month, viewVars, callsLeft>>

(***************************************************************************)
(* The budget editor (budget screen, saveEdit).  The text typed is empty,  *)
(* not a number, or the number val.                                        *)
(***************************************************************************)
EditValues ==
  {[tag |-> "empty", val |-> 0], [tag |-> "nan", val |-> 0]}
    \cup {[tag |-> "num", val |-> n] : n \in {0 - 1, 0} \cup Amounts}

\* const budget = trimmed ? parseFloat(trimmed) : null
ParsedBudget(editValue) == IF editValue.tag = "empty" THEN {} ELSE {editValue.val}

\* if (trimmed && (isNaN(budget!) || budget! < 0)) return
EditRejected(editValue) ==
  editValue.tag # "empty" /\ (editValue.tag = "nan" \/ editValue.val < 0)

\* saveEdit(id) for a row on screen: the budget is stored for the selected
\* month and loadData() is called
SaveEdit(id, editValue) ==
  /\ \E i \in 1..Len(budget.rows) : budget.rows[i].id = id
  /\ ~EditRejected(editValue)
  /\ CanCall
  /\ LET mb2 == setMonthlyBudget(monthly_budgets, id, month, ParsedBudget(editValue))
     IN /\ monthly_budgets' = mb2
        /\ loads' = [Noted(loads, 0, monthly_budgets, mb2)
                       EXCEPT ![FreeSlot] = StartedLoad("budget", month)]
        /\ history' = [EditNoted(history, FreeSlot, monthly_budgets, mb2, id, month)
                         EXCEPT !.budget = month]
  /\ callsLeft' = callsLeft - 1
  /\ UNCHANGED <<orderVars, settings, alert, uiVars, categories, nextCategoryId, category_groups, transactions, month,
                 viewVars>>

\* saveEdit(id) with a text that is not a number or is negative: nothing is stored
SaveEditRejected(id, editValue) ==
  /\ \E i \in 1..Len(budget.rows) : budget.rows[i].id = id
  /\ EditRejected(editValue)
  /\ UNCHANGED vars

\* the ids of the rows on the budget screen
RowIds == {budget.rows[i].id : i \in 1..Len(budget.rows)}

Next ==
  \/ FocusOverview
  \/ FocusBudget
  \/ \E delta \in {0 - 1, 1} : ChangeMonth(delta)
  \/ \E p \in Slots : HasStep(p)
  \/ \E p \in Slots : FindStep(p)
  \/ \E p \in Slots : CopyStep(p)
  \/ \E p \in Slots : ReadStep(p)
  \/ \E p \in Slots : ReturnStep(p)
  \/ \E id \in RowIds, v \in EditValues : SaveEdit(id, v)
  \/ \E id \in RowIds, v \in EditValues : SaveEditRejected(id, v)

Spec == Init /\ [][Next]_vars

(***************************************************************************)
(* The reports, computed from a store with transactions: the overview and  *)
(* the budget screen are each loaded for the selected month.               *)
(***************************************************************************)
\* `${yyyy}-${mm}-${dd}` (formatDate of the add and edit forms)
DateIn(m, day) == m \o Hyphen \o Pad2(day)

\* the transactions a store of the model can hold: spends and incomes of
\* every amount in the second month, booked on a category of the model or on
\* category 3, which is in no categories table of the model (the add form
\* and import store the categoryId they are given), and two transactions of
\* the month before
TxUniverse ==
  {[id |-> 4 * c + 2 * i + a, date |-> DateIn(MonthAt(1), 15), isIncome |-> i,
    amount |-> a, categoryId |-> c] : c \in CategoryIds \cup {3}, i \in {0, 1}, a \in Amounts}
  \cup {[id |-> 1, date |-> DateIn(MonthAt(0), 28), isIncome |-> 0, amount |-> 2,
          categoryId |-> 1],
         [id |-> 2, date |-> DateIn(MonthAt(0), 28), isIncome |-> 1, amount |-> 1,
          categoryId |-> 2]}

\* the categories tables of the model: either rule for each id; the names
\* are in the opposite order of the ids
CategoryTables ==
  {{[id |-> c, name |-> 10 - c, rule |-> r[c], groupId |-> {}] : c \in CategoryIds} :
     r \in [CategoryIds -> Rules]}

\* budgets in the selected month, or in the month before it, or nowhere
ReportBudgetTables ==
  {t \in BudgetTables :
     /\ \A r \in t : r.month \in {MonthAt(0), MonthAt(1)}
     /\ ~(hasMonthlyBudgets(t, MonthAt(0)) /\ hasMonthlyBudgets(t, MonthAt(1)))}

InitReport ==
  /\ categories \in CategoryTables
  /\ nextCategoryId = 3
  /\ category_groups = {}
  /\ transactions \in {txs \in SUBSET TxUniverse : Cardinality(txs) <= MaxTx}
  /\ monthly_budgets \in ReportBudgetTables
  /\ Started
  /\ month = MonthAt(1)
  /\ callsLeft = 2

NextReport ==
  \/ FocusOverview
  \/ FocusBudget
  \/ \E p \in Slots : HasStep(p)
  \/ \E p \in Slots : FindStep(p)
  \/ \E p \in Slots : CopyStep(p)
  \/ \E p \in Slots : ReadStep(p)

SpecReport == InitReport /\ [][NextReport]_vars

(***************************************************************************)
(* The flat report's rows and their order: the overview is loaded once on  *)
(* a store with MaxFlatCats categories, each with a budget or none and     *)
(* with no transaction, a spend, a payback, or a spend and a payback that  *)
(* cancel.                                                                 *)
(***************************************************************************)
FlatCategoryIds == 1..MaxFlatCats

\* the transactions one category can have in the selected month
FlatTxProfiles(c) ==
  LET tx(k, i, a) == [id |-> 10 * c + k, date |-> DateIn(MonthAt(1), 10 + k),
                      isIncome |-> i, amount |-> a, categoryId |-> c]
  IN {{}} \cup {{tx(1, 0, a)} : a \in 1..MaxFlatAmount}
          \cup {{tx(1, 1, a)} : a \in 1..(MaxFlatAmount - 1)}
          \cup {{tx(1, 0, 1), tx(2, 1, 1)}}

\* the last category has either rule, the others are spending categories;
\* the names are in the opposite order of the ids
FlatCategoryTables ==
  {{[id |-> c, name |-> 10 - c,
     rule |-> IF c = MaxFlatCats THEN r ELSE "spending", groupId |-> {}] :
       c \in FlatCategoryIds} : r \in Rules}

\* a profile for each category
FlatTxChoices ==
  {f \in [FlatCategoryIds -> UNION {FlatTxProfiles(c) : c \in FlatCategoryIds}] :
     \A c \in FlatCategoryIds : f[c] \in FlatTxProfiles(c)}

InitFlat ==
  /\ categories \in FlatCategoryTables
  /\ nextCategoryId = MaxFlatCats + 1
  /\ category_groups = {}
  /\ transactions \in {UNION {f[c] : c \in FlatCategoryIds} : f \in FlatTxChoices}
  /\ monthly_budgets \in
       {{[categoryId |-> c, month |-> MonthAt(1), budgetAmount |-> n] :
           <<c, n>> \in {x \in FlatCategoryIds \X Amounts : x[2] \in b[x[1]]}} :
              b \in [FlatCategoryIds -> {{}} \cup {{n} : n \in Amounts}]}
  /\ Started
  /\ month = MonthAt(1)
  /\ callsLeft = 1

NextFlat ==
  \/ FocusOverview
  \/ \E p \in Slots : HasStep(p)
  \/ \E p \in Slots : FindStep(p)
  \/ \E p \in Slots : ReadStep(p)

SpecFlat == InitFlat /\ [][NextFlat]_vars

(***************************************************************************)
(* The add form, the edit form, the transaction list and the categories    *)
(* screen.  The tab screens stay mounted, so a form keeps its state while  *)
(* another screen is in focus.                                             *)
(***************************************************************************)
\* the run has user events left
CanAct == callsLeft > 0

\* categoryId of a form once a category list is there: cats[0].id
FirstOf(cats, otherwise) == IF Len(cats) > 0 THEN {cats[1].id} ELSE otherwise

\* the Add tab is pressed; on its first focus AddScreen mounts and its effect
\* loads the categories once and selects the first
OpenAdd ==
  /\ CanAct
  /\ screen # "add"
  /\ screen' = "add"
  /\ addForm' = IF addForm.mounted THEN addForm
                ELSE LET cats == getAllCategories(categories)
                     IN [mounted |-> TRUE, categories |-> cats,
                         categoryId |-> FirstOf(cats, {}), isIncome |-> FALSE]
  /\ callsLeft' = callsLeft - 1
  /\ UNCHANGED <<orderVars, settings, alert, history, storeVars, month, viewVars, loads, nextTransactionId, editForm,
                 catScreen, deleted>>

\* AddScreen, handleCategorySelect(cat) for a chip of the form
AddSelect(i) ==
  /\ CanAct
  /\ screen = "add"
  /\ i \in 1..Len(addForm.categories)
  /\ addForm.categoryId # {addForm.categories[i].id}
  /\ addForm' = [addForm EXCEPT !.categoryId = {addForm.categories[i].id},
                                !.isIncome = addForm.categories[i].rule = "income"]
  /\ callsLeft' = callsLeft - 1
  /\ UNCHANGED <<orderVars, settings, alert, history, storeVars, month, viewVars, loads, nextTransactionId, screen, editForm,
                 catScreen, deleted>>

\* AddScreen, handleSubmit with a valid description, account and amount:
\* without a category the form is refused, else the transaction is
\* inserted, the form is reset and the transaction list is shown
AddSubmit(amount) ==
  /\ CanAct
  /\ screen = "add"
  /\ callsLeft' = callsLeft - 1
  /\ IF addForm.categoryId = {}
     THEN UNCHANGED <<transactions, nextTransactionId, addForm, screen>>
     ELSE /\ transactions' = insertTransaction(transactions, nextTransactionId,
                                [date |-> DateIn(month, 15),
                                 isIncome |-> IF addForm.isIncome THEN 1 ELSE 0,
                                 amount |-> amount,
                                 categoryId |-> CHOOSE id \in addForm.categoryId : TRUE])
          /\ nextTransactionId' = nextTransactionId + 1
          /\ addForm' = [addForm EXCEPT
                           !.isIncome = FALSE,
                           !.categoryId = FirstOf(addForm.categories, addForm.categoryId)]
          /\ screen' = "transactions"
  /\ UNCHANGED <<orderVars, settings, alert, history, categories, nextCategoryId, category_groups, monthly_budgets, month,
                 viewVars, loads, editForm, catScreen, deleted>>

\* the Transactions tab or the edit screen's back button is pressed
OpenTransactions ==
  /\ CanAct
  /\ screen # "transactions"
  /\ screen' = "transactions"
  /\ callsLeft' = callsLeft - 1
  /\ UNCHANGED <<orderVars, settings, alert, history, storeVars, month, viewVars, loads, nextTransactionId, addForm, editForm,
                 catScreen, deleted>>

\* TransactionsScreen, handleDelete(tx) confirmed, for a transaction of the
\* list (the list is taken as loaded)
TxDelete(id) ==
  /\ CanAct
  /\ screen = "transactions"
  /\ getTransactionById(transactions, id) # {}
  /\ transactions' = deleteTransaction(transactions, id)
  /\ callsLeft' = callsLeft - 1
  /\ UNCHANGED <<orderVars, settings, alert, history, categories, nextCategoryId, category_groups, monthly_budgets, month,
                 viewVars, loads, nextTransactionId, screen, addForm, editForm, catScreen,
                 deleted>>

\* what EditScreen's effect sets when it runs for transaction id
EditLoaded(id) ==
  LET tx == CHOOSE t \in getTransactionById(transactions, id) : TRUE
  IN [id |-> {id}, categories |-> getAllCategories(categories),
      categoryId |-> {tx.categoryId}, isIncome |-> tx.isIncome = 1,
      date |-> tx.date, amount |-> tx.amount]

\* a transaction of the list is pressed: router.push("/edit?id=..."); the
\* effect of EditScreen runs when id is not the id it last ran for
TxEdit(id) ==
  /\ CanAct
  /\ screen = "transactions"
  /\ getTransactionById(transactions, id) # {}
  /\ screen' = "edit"
  /\ editForm' = IF editForm.id = {id} THEN editForm ELSE EditLoaded(id)
  /\ callsLeft' = callsLeft - 1
  /\ UNCHANGED <<orderVars, settings, alert, history, storeVars, month, viewVars, loads, nextTransactionId, addForm,
                 catScreen, deleted>>

\* EditScreen, handleCategorySelect(cat) for a chip of the form
EditSelect(i) ==
  /\ CanAct
  /\ screen = "edit"
  /\ i \in 1..Len(editForm.categories)
  /\ editForm.categoryId # {editForm.categories[i].id}
  /\ editForm' = [editForm EXCEPT !.categoryId = {editForm.categories[i].id},
                                  !.isIncome = editForm.categories[i].rule = "income"]
  /\ callsLeft' = callsLeft - 1
  /\ UNCHANGED <<orderVars, settings, alert, history, storeVars, month, viewVars, loads, nextTransactionId, screen, addForm,
                 catScreen, deleted>>

\* EditScreen, handleSubmit: the form's fields are stored on the row with
\* the form's id and the transaction list is shown
EditSubmit ==
  /\ CanAct
  /\ screen = "edit"
  /\ editForm.id # {}
  /\ editForm.categoryId # {}
  /\ transactions' = updateTransaction(transactions, CHOOSE id \in editForm.id : TRUE,
                        [date |-> editForm.date,
                         isIncome |-> IF editForm.isIncome THEN 1 ELSE 0,
                         amount |-> editForm.amount,
                         categoryId |-> CHOOSE id \in editForm.categoryId : TRUE])
  /\ screen' = "transactions"
  /\ callsLeft' = callsLeft - 1
  /\ UNCHANGED <<orderVars, settings, alert, history, categories, nextCategoryId, category_groups, monthly_budgets, month,
                 viewVars, loads, nextTransactionId, addForm, editForm, catScreen, deleted>>

\* the categories screen gains focus: useFocusEffect(reload)
OpenCategories ==
  /\ CanAct
  /\ screen # "categories"
  /\ screen' = "categories"
  /\ catScreen' = [catScreen EXCEPT !.reloading = TRUE]
  /\ callsLeft' = callsLeft - 1
  /\ UNCHANGED <<orderVars, settings, alert, history, storeVars, month, viewVars, loads, nextTransactionId, addForm, editForm,
                 deleted>>

\* the Promise.all of reload resolves: the three lists are set from the store
ReloadResolve ==
  /\ catScreen.reloading
  /\ catScreen' = [categories |-> getAllCategories(categories),
                   txCounts |-> getTransactionCountsByCategory(transactions),
                   groups |-> getCategoryGroups(category_groups),
                   reloading |-> FALSE]
  /\ UNCHANGED <<orderVars, settings, alert, history, storeVars, month, viewVars, loads, callsLeft, nextTransactionId, screen,
                 addForm, editForm, deleted>>

\* CategoriesScreen, handleAdd with a name typed: a name that exists fails
\* on UNIQUE and nothing is stored; else the spending category is inserted
\* and reload() is called
HandleAdd(name) ==
  /\ CanAct
  /\ screen = "categories"
  /\ callsLeft' = callsLeft - 1
  /\ IF \E c \in categories : c.name = name
     THEN UNCHANGED <<categories, nextCategoryId, catScreen>>
     ELSE /\ categories' = insertCategory(categories, nextCategoryId, name, "spending")
          /\ nextCategoryId' = nextCategoryId + 1
          /\ catScreen' = [catScreen EXCEPT !.reloading = TRUE]
  /\ UNCHANGED <<orderVars, settings, alert, history, category_groups, transactions, monthly_budgets, month, viewVars, loads,
                 nextTransactionId, screen, addForm, editForm, deleted>>

\* CategoriesScreen, handleDelete(cat) for a category of the list: with a
\* count above 0 in txCounts the deletion is refused; else, once confirmed,
\* deleteCategory(cat.id) runs and reload() is called
HandleDelete(i) ==
  /\ CanAct
  /\ screen = "categories"
  /\ i \in 1..Len(catScreen.categories)
  /\ callsLeft' = callsLeft - 1
  /\ LET cat == catScreen.categories[i]
         count == OrZero(catScreen.txCounts, cat.id)
     IN IF count > 0
        THEN UNCHANGED <<categories, monthly_budgets, loads, catScreen, deleted>>
        ELSE /\ monthly_budgets' = deleteCategoryBudgets(monthly_budgets, cat.id)
             /\ loads' = Noted(loads, 0, monthly_budgets,
                               deleteCategoryBudgets(monthly_budgets, cat.id))
             /\ categories' = deleteCategory(categories, cat.id)
             /\ catScreen' = [catScreen EXCEPT !.reloading = TRUE]
             /\ deleted' = [op |-> "deleteCategory", id |-> cat.id,
                            categories |-> categories]
  /\ UNCHANGED <<orderVars, settings, alert, history, nextCategoryId, category_groups, transactions, month, viewVars,
                 nextTransactionId, screen, addForm, editForm>>

\* CategoriesScreen, handleDeleteGroup(group) confirmed, for a group of the
\* list: deleteCategoryGroup(group.id) runs and reload() is called
HandleDeleteGroup(i) ==
  /\ CanAct
  /\ screen = "categories"
  /\ i \in 1..Len(catScreen.groups)
  /\ LET group == catScreen.groups[i]
     IN /\ categories' = deleteCategoryGroup(categories, group.id)
        /\ category_groups' = deleteCategoryGroupRow(category_groups, group.id)
        /\ deleted' = [op |-> "deleteCategoryGroup", id |-> group.id,
                       categories |-> categories]
  /\ catScreen' = [catScreen EXCEPT !.reloading = TRUE]
  /\ callsLeft' = callsLeft - 1
  /\ UNCHANGED <<orderVars, settings, alert, history, nextCategoryId, transactions, monthly_budgets, month, viewVars, loads,
                 nextTransactionId, screen, addForm, editForm>>

\* the names typed into the categories screen: one no category has, one a
\* category has
TypedNames == {7, 9}

\* the ids transactions can have in a run
TransactionIds == 1..(MaxEvents + 1)

\* the store earlier sessions left: a spending and an income category, each
\* in one of the two groups or none, no transaction or one, no budgets or
\* budgets in two months
InitStore ==
  /\ categories \in
       {{[id |-> 1, name |-> 9, rule |-> "spending", groupId |-> g1],
         [id |-> 2, name |-> 8, rule |-> "income", groupId |-> g2]} :
           g1 \in {{}} \cup {{g} : g \in GroupIds},
           g2 \in {{}} \cup {{g} : g \in GroupIds}}
  /\ nextCategoryId = 3
  /\ category_groups = {[id |-> g, name |-> 20 + g, sortOrder |-> g] : g \in GroupIds}
  /\ transactions \in
       {{}, {[id |-> 1, date |-> DateIn(MonthAt(1), 10), isIncome |-> 0, amount |-> 1,
              categoryId |-> 1]}}
  /\ monthly_budgets \in
       {{}, {[categoryId |-> 1, month |-> MonthAt(0), budgetAmount |-> 1],
             [categoryId |-> 1, month |-> MonthAt(1), budgetAmount |-> 2],
             [categoryId |-> 2, month |-> MonthAt(1), budgetAmount |-> 1]}}
  /\ Started
  /\ month = MonthAt(1)
  /\ callsLeft = MaxEvents

NextStore ==
  \/ OpenAdd
  \/ \E i \in 1..Len(addForm.categories) : AddSelect(i)
  \/ \E amount \in {1} : AddSubmit(amount)
  \/ OpenTransactions
  \/ \E id \in TransactionIds : TxDelete(id)
  \/ \E id \in TransactionIds : TxEdit(id)
  \/ \E i \in 1..Len(editForm.categories) : EditSelect(i)
  \/ EditSubmit
  \/ OpenCategories
  \/ ReloadResolve
  \/ \E name \in TypedNames : HandleAdd(name)
  \/ \E i \in 1..Len(catScreen.categories) : HandleDelete(i)
  \/ \E i \in 1..Len(catScreen.groups) : HandleDeleteGroup(i)

SpecStore == InitStore /\ [][NextStore]_vars

(***************************************************************************)
(* The budget operations: the budget editor, the rollovers, the month      *)
(* reset of the settings screen and the deletion of a category.            *)
(***************************************************************************)
\* settings screen, handleReset confirmed twice: refused when the selected
\* month has no transactions, else the month's transactions and budget
\* rows are deleted
MonthReset ==
  /\ CanAct
  /\ countTransactionsByMonth(transactions, month) > 0
  /\ transactions' = deleteTransactionsByMonth(transactions, month)
  /\ monthly_budgets' = deleteMonthlyBudgetsByMonth(monthly_budgets, month)
  /\ loads' = Noted(loads, 0, monthly_budgets,
                    deleteMonthlyBudgetsByMonth(monthly_budgets, month))
  /\ callsLeft' = callsLeft - 1
  /\ UNCHANGED <<orderVars, settings, alert, history, categories, nextCategoryId, category_groups, month, viewVars, uiVars>>

\* the store earlier sessions left: the two categories, one transaction of
\* the second month, and any table of budgets without rows in the last
\* month; the second month is selected
InitBudgets ==
  /\ categories = {[id |-> 1, name |-> 2, rule |-> "spending", groupId |-> {}],
                   [id |-> 2, name |-> 1, rule |-> "income", groupId |-> {}]}
  /\ nextCategoryId = 3
  /\ category_groups = {}
  /\ transactions = {[id |-> 1, date |-> DateIn(MonthAt(1), 10), isIncome |-> 0,
                      amount |-> 1, categoryId |-> 1]}
  /\ monthly_budgets \in {mb \in BudgetTables :
                            ~hasMonthlyBudgets(mb, MonthAt(MaxMonthIdx))}
  /\ Started
  /\ month = MonthAt(1)
  /\ callsLeft = MaxBudgetCalls

NextBudgets ==
  \/ FocusOverview
  \/ FocusBudget
  \/ \E delta \in {0 - 1, 1} : ChangeMonth(delta)
  \/ \E p \in Slots : HasStep(p)
  \/ \E p \in Slots : FindStep(p)
  \/ \E p \in Slots : CopyStep(p)
  \/ \E p \in Slots : ReadStep(p)
  \/ \E p \in Slots : ReturnStep(p)
  \/ \E id \in RowIds, v \in EditValues : SaveEdit(id, v)
  \/ \E id \in RowIds, v \in EditValues : SaveEditRejected(id, v)
  \/ MonthReset
  \/ OpenCategories
  \/ ReloadResolve
  \/ \E i \in 1..Len(catScreen.categories) : HandleDelete(i)

SpecBudgets == InitBudgets /\ [][NextBudgets]_vars

(***************************************************************************)
(* The grouped report: both screens are loaded on a store with MaxGroups   *)
(* groups in any order and three categories, two of them spending          *)
(* categories in any group or none.                                        *)
(***************************************************************************)
\* every order of the groups: sortOrder is a permutation of 1..MaxGroups
GroupTables ==
  {{[id |-> g, name |-> 20 + g, sortOrder |-> o[g]] : g \in GroupIds} :
     o \in {f \in [GroupIds -> GroupIds] : \A g, h \in GroupIds : f[g] = f[h] => g = h}}

\* an id no stored group has: updateCategoryGroupId stores the id it is given
\* and no foreign key check is switched on, so a category can carry the id of
\* a group that is gone
GoneGroupId == MaxGroups + 1

\* categories 1 and 2 are spending categories of any group or none, category
\* 2 possibly of a group that is gone; category 3 is a spending category
\* without group or an income category of the first group or none; a
\* spending category 4 without group is there or not
GroupedCategoryTables ==
  {{[id |-> 1, name |-> 9, rule |-> "spending", groupId |-> g1],
    [id |-> 2, name |-> 8, rule |-> "spending", groupId |-> g2],
    [id |-> 3, name |-> 7, rule |-> third[1], groupId |-> third[2]]} \cup fourth :
      g1 \in {{}} \cup {{g} : g \in GroupIds},
      g2 \in {{}} \cup {{g} : g \in GroupIds} \cup {{GoneGroupId}},
      third \in {<<"spending", {}>>, <<"income", {}>>, <<"income", {1}>>},
      fourth \in {{}, {[id |-> 4, name |-> 6, rule |-> "spending", groupId |-> {}]}}}

\* each category has no transaction, a spend of 3 or a payback of 2
GroupedTxProfiles(c) ==
  {{}, {[id |-> 10 * c, date |-> DateIn(MonthAt(1), 10), isIncome |-> 0, amount |-> 3,
         categoryId |-> c]},
       {[id |-> 10 * c, date |-> DateIn(MonthAt(1), 10), isIncome |-> 1, amount |-> 2,
         categoryId |-> c]}}

GroupedTxChoices ==
  {f \in [{1, 2, 3} -> UNION {GroupedTxProfiles(c) : c \in {1, 2, 3}}] :
     \A c \in {1, 2, 3} : f[c] \in GroupedTxProfiles(c)}

\* no budgets, or a budget for each of the two spending categories
GroupedBudgetTables ==
  {{}, {[categoryId |-> 1, month |-> MonthAt(1), budgetAmount |-> 2],
        [categoryId |-> 2, month |-> MonthAt(1), budgetAmount |-> 1]}}

InitGroups ==
  /\ categories \in GroupedCategoryTables
  /\ nextCategoryId = 5
  /\ category_groups \in GroupTables
  /\ transactions \in {UNION {f[c] : c \in {1, 2, 3}} : f \in GroupedTxChoices}
  /\ monthly_budgets \in GroupedBudgetTables
  /\ Started
  /\ month = MonthAt(1)
  /\ callsLeft = 2

NextGroups ==
  \/ FocusOverview
  \/ FocusBudget
  \/ \E p \in Slots : HasStep(p)
  \/ \E p \in Slots : FindStep(p)
  \/ \E p \in Slots : ReadStep(p)

SpecGroups == InitGroups /\ [][NextGroups]_vars

(***************************************************************************)
(* Properties of rollover, under Spec.  Months are compared here by their  *)
(* place in the calendar, not as text.                                     *)
(***************************************************************************)
MonthsWithRows(mb) == {r.month : r \in mb}

EarlierMonthsWithRows(mb, target) ==
  {m \in MonthsWithRows(mb) : IdxOf(m) < IdxOf(target)}

LatestOf(ms) == CHOOSE m \in ms : \A n \in ms : IdxOf(n) <= IdxOf(m)

\* the (categoryId, budgetAmount) pairs of a month
Pairs(mb, m) == {<<r.categoryId, r.budgetAmount>> : r \in {x \in mb : x.month = m}}

\* the rows of the months other than m
Elsewhere(mb, m) == {r \in mb : r.month # m}

\* the call's rollover is over
Ended(l) == l.pc \in {"read", "return"}

\* the call is between its existence check and the end of its copy
InRollover(l) == l.pc \in {"find", "copy"}

\* C1: when a call's lookup runs for a target month T that has no rows, the
\* month it finds is the latest month earlier than T that has a row, and it
\* goes on to copy from it; if no earlier month has a row it finds none and
\* does not copy.
C1_SourceIsLatestEarlierMonth ==
  [][\A p \in Slots :
       (/\ loads[p].pc = "find"
        /\ loads'[p].pc # "find"
        /\ loads[p].month \notin MonthsWithRows(monthly_budgets))
       => LET earlier == EarlierMonthsWithRows(monthly_budgets, loads[p].month)
          IN IF earlier = {}
             THEN loads'[p].prevMonth = NoMonth /\ loads'[p].pc # "copy"
             ELSE loads'[p].prevMonth = LatestOf(earlier) /\ loads'[p].pc = "copy"]_vars

\* a call is about to copy into the third month from the second, while the
\* first month has rows too
C1_Witness ==
  \E p \in Slots :
    /\ loads[p].pc = "copy"
    /\ loads[p].month = MonthAt(2)
    /\ loads[p].prevMonth = MonthAt(1)
    /\ MonthsWithRows(monthly_budgets) = {MonthAt(0), MonthAt(1)}
    /\ Pairs(monthly_budgets, MonthAt(0)) # Pairs(monthly_budgets, MonthAt(1))

\* rollover run from start to end with nothing in between, as loadOverview
\* and loadData run it
Rollover(mb, target) ==
  IF hasMonthlyBudgets(mb, target)
  THEN mb
  ELSE LET prevMonth == getMostRecentMonthWithBudgets(mb, LookupBound("overview", target))
       IN IF prevMonth # NoMonth
          THEN copyBudgetsFromMonth(mb, prevMonth, target)
          ELSE mb

\* C2: a rollover for a month that has at least one row ends without a
\* copy and leaves the table as its check saw it; and on every table, for
\* every month, a second rollover right after the first changes nothing.
C2_NoOpWhenRowsExist ==
  /\ \A p \in Slots :
       (/\ Ended(loads[p])
        /\ loads[p].clean
        /\ loads[p].month \in MonthsWithRows(loads[p].before))
       => /\ loads[p].hasBudgets
          /\ loads[p].prevMonth = NoMonth
          /\ monthly_budgets = loads[p].before
  /\ \A m \in Months :
       Rollover(Rollover(monthly_budgets, m), m) = Rollover(monthly_budgets, m)

\* a rollover has ended for a month that had a budget for one category only
\* while the month before it has a budget for each
C2_Witness ==
  \E p \in Slots :
    /\ Ended(loads[p])
    /\ loads[p].clean
    /\ loads[p].hasBudgets
    /\ loads[p].month = MonthAt(1)
    /\ Cardinality(Pairs(loads[p].before, MonthAt(1))) = 1
    /\ Cardinality(Pairs(loads[p].before, MonthAt(0))) = 2
    /\ Rollover(monthly_budgets, MonthAt(2)) # monthly_budgets

\* C3: after a rollover for a target month T that had no rows, where S is
\* the latest earlier month with rows, T holds exactly S's (categoryId,
\* budgetAmount) pairs and the rows of every other month are as before; if
\* no earlier month has rows, the table is as before, T has no rows, and
\* the call has gone on.
C3_CopiesSourcePairs ==
  \A p \in Slots :
    (/\ Ended(loads[p])
     /\ loads[p].clean
     /\ loads[p].month \notin MonthsWithRows(loads[p].before))
    => LET target == loads[p].month
           earlier == EarlierMonthsWithRows(loads[p].before, target)
       IN IF earlier = {}
          THEN /\ monthly_budgets = loads[p].before
               /\ Pairs(monthly_budgets, target) = {}
          ELSE /\ Pairs(monthly_budgets, target) = Pairs(loads[p].before, LatestOf(earlier))
               /\ Elsewhere(monthly_budgets, target) = Elsewhere(loads[p].before, target)

\* a rollover has copied a budget for each category into the second month,
\* while a later month holds other rows
C3_Witness ==
  \E p \in Slots :
    /\ Ended(loads[p])
    /\ loads[p].clean
    /\ loads[p].month = MonthAt(1)
    /\ loads[p].before # monthly_budgets
    /\ Cardinality(Pairs(monthly_budgets, MonthAt(1))) = 2
    /\ Cardinality(Pairs(monthly_budgets, MonthAt(2))) = 1

C5_CheckAndCopyAtomic ==
  \A p, q \in Slots :
    (p # q /\ InRollover(loads[p]) /\ InRollover(loads[q]))
    => loads[p].month # loads[q].month

\* C6: when a rollover has ended and, since its check, nothing wrote to the
\* table but rollovers for the same month, the table is what one rollover
\* run alone on the table of the check leaves.
C6_InterleavedAsSingle ==
  \A p \in Slots :
    (Ended(loads[p]) /\ loads[p].clean)
    => monthly_budgets = Rollover(loads[p].before, loads[p].month)

\* two rollovers for one month have both found it without rows, both
\* copied, one of them from the month itself, and both have ended
C6_Witness ==
  \E p, q \in Slots :
    /\ p # q
    /\ Ended(loads[p]) /\ Ended(loads[q])
    /\ loads[p].month = loads[q].month
    /\ ~loads[p].hasBudgets /\ ~loads[q].hasBudgets
    /\ loads[p].clean /\ loads[q].clean
    /\ loads[p].prevMonth # NoMonth
    /\ loads[q].prevMonth = loads[q].month
    /\ loads[p].before = loads[q].before

\* the (categoryId, budgetAmount) pairs on the rows of a view
RowBudgets(rows) ==
  UNION {{<<rows[i].id, n>> : n \in rows[i].budgetAmount} : i \in 1..Len(rows)}

\* the pairs with a budget above 0, the ones the overview shows as budgets
Positive(pairs) == {k \in pairs : k[2] > 0}

\* C7: a load reads the month's budget rows only once its rollover is over:
\* when the load of a month that had no rows at its check, with an earlier
\* month that has, reads the data, the budgets it puts on screen are the
\* pairs of the latest earlier month, copied by then.
C7_ReadsAfterRollover ==
  [][\A p \in Slots :
       (/\ loads[p].pc = "read"
        /\ loads'[p].pc = "idle"
        /\ loads[p].clean
        /\ loads[p].month \notin MonthsWithRows(loads[p].before)
        /\ EarlierMonthsWithRows(loads[p].before, loads[p].month) # {})
       => LET source == LatestOf(EarlierMonthsWithRows(loads[p].before, loads[p].month))
              copied == Pairs(loads[p].before, source)
          IN /\ copied # {}
             /\ IF loads[p].kind = "overview"
                THEN Positive(RowBudgets(overview'.spendingCategories
                                           \o overview'.incomeCategories))
                       = Positive(copied)
                ELSE RowBudgets(budget'.rows) = copied]_vars

\* both screens show, for the third month, the budgets their loads' rollovers
\* copied from the second
C7_Witness ==
  /\ overview.forMonth = MonthAt(2)
  /\ overview.copiedFrom = MonthAt(1)
  /\ Len(overview.spendingCategories) + Len(overview.incomeCategories) = 2
  /\ budget.forMonth = MonthAt(2)
  /\ budget.copiedFrom = MonthAt(1)
  /\ RowBudgets(budget.rows) = Pairs(monthly_budgets, MonthAt(1))
  /\ RowBudgets(budget.rows) # {}

(***************************************************************************)
(* Properties of the reports, under SpecReport.  The sums are taken here   *)
(* over the stored transactions as a set, whatever the order they are read *)
(* in.                                                                     *)
(***************************************************************************)
\* the stored transactions dated in month m
MonthTx(m) == {t \in transactions : SubSeq(t.date, 1, Len(m)) = m}

Signed(t) == IF t.isIncome = 1 THEN t.amount ELSE 0 - t.amount

RECURSIVE SumSigned(_)
SumSigned(txs) ==
  IF txs = {} THEN 0
  ELSE LET t == CHOOSE x \in txs : TRUE
       IN Signed(t) + SumSigned(txs \ {t})

\* the month's transactions booked on category id
TxOf(id, m) == {t \in MonthTx(m) : t.categoryId = id}

\* the sum of the signed amounts of the month's transactions of category id
NetOf(id, m) == SumSigned(TxOf(id, m))

\* the month's transactions booked on the categories of a rule
TxOfRule(rule, m) ==
  {t \in MonthTx(m) : \E c \in categories : c.id = t.categoryId /\ c.rule = rule}

\* a map is the aggregation of month m: an entry for each stored category
\* that has a transaction in the month, holding the sum of their signed
\* amounts, and no other entry
Aggregates(map, m) ==
  /\ DOMAIN map = {c.id : c \in {x \in categories : TxOf(x.id, m) # {}}}
  /\ \A id \in DOMAIN map : map[id] = NetOf(id, m)

\* C8: the map a load aggregates maps each category id to the sum of the
\* signed amounts (amount if isIncome, else minus amount) of the month's
\* transactions with that categoryId; a transaction of a category that is
\* not in the category list adds to no entry and the load still ends; a
\* category without transactions has no entry.
C8_AggregationIsSignedSum ==
  /\ overview.forMonth # NoMonth
       => Aggregates(overview.spentByCategory, overview.forMonth)
  /\ budget.forMonth # NoMonth
       => Aggregates(budget.actuals, budget.forMonth)

\* both screens are loaded for a month with a spend and a payback on one
\* category, a transaction of a category that is not stored, and a stored
\* category without transactions
C8_Witness ==
  /\ overview.forMonth = month
  /\ budget.forMonth = month
  /\ \E t \in MonthTx(month) : \A c \in categories : c.id # t.categoryId
  /\ \E c \in categories :
       /\ \E t \in TxOf(c.id, month) : t.isIncome = 1
       /\ \E t \in TxOf(c.id, month) : t.isIncome = 0
       /\ c.id \in DOMAIN overview.spentByCategory
  /\ \E c \in categories :
       TxOf(c.id, month) = {} /\ c.id \notin DOMAIN budget.actuals

\* the value a report is to show for a category
Reported(c, m) == IF c.rule = "spending" THEN 0 - NetOf(c.id, m) ELSE NetOf(c.id, m)

\* the rows of sequence rows for category id
RowsOf(rows, id) == {i \in 1..Len(rows) : rows[i].id = id}

\* C9: on both screens the value reported for a spending category is minus
\* the sum of its transactions' signed amounts, negative exactly when that
\* sum is positive, and the value reported for an income category is the
\* sum itself; the overview leaves out only categories whose value is 0.
C9_SpentIsMinusSignedSum ==
  /\ overview.forMonth # NoMonth =>
       \A c \in categories :
         LET m == overview.forMonth
             list == IF c.rule = "income" THEN overview.incomeCategories
                     ELSE overview.spendingCategories
             other == IF c.rule = "income" THEN overview.spendingCategories
                      ELSE overview.incomeCategories
         IN /\ RowsOf(other, c.id) = {}
            /\ Cardinality(RowsOf(list, c.id)) <= 1
            /\ RowsOf(list, c.id) = {} => Reported(c, m) = 0
            /\ \A i \in RowsOf(list, c.id) :
                 /\ list[i].spent = Reported(c, m)
                 /\ c.rule = "spending" => (list[i].spent < 0 <=> NetOf(c.id, m) > 0)
  /\ budget.forMonth # NoMonth =>
       \A c \in categories :
         /\ Cardinality(RowsOf(budget.rows, c.id)) = 1
         /\ \A i \in RowsOf(budget.rows, c.id) :
              /\ budget.rows[i].actual = Reported(c, budget.forMonth)
              /\ c.rule = "spending" =>
                   (budget.rows[i].actual < 0 <=> NetOf(c.id, budget.forMonth) > 0)

\* both screens show a spending category in profit, and the overview an
\* income category with income
C9_Witness ==
  /\ \E i \in 1..Len(overview.spendingCategories) :
       overview.spendingCategories[i].spent < 0
  /\ \E i \in 1..Len(overview.incomeCategories) :
       overview.incomeCategories[i].spent > 0
  /\ \E i \in 1..Len(budget.rows) :
       budget.rows[i].rule = "spending" /\ budget.rows[i].actual < 0

\* C10: the overview's total income is the sum of the signed amounts of the
\* month's transactions of income categories, and its total spending minus
\* the sum of those of spending categories: an income-flagged transaction
\* of a spending category adds nothing to total income and lowers total
\* spending by its amount.
C10_TotalsByCategoryRule ==
  overview.forMonth # NoMonth =>
    /\ overview.totalIncome = SumSigned(TxOfRule("income", overview.forMonth))
    /\ overview.totalSpending = 0 - SumSigned(TxOfRule("spending", overview.forMonth))

\* the overview is loaded for a month with a spend of 2 and a payback of 1
\* on a spending category and an income on an income category
C10_Witness ==
  /\ overview.forMonth = month
  /\ \E s, b \in TxOfRule("spending", month), i \in TxOfRule("income", month) :
       /\ s.isIncome = 0 /\ s.amount = 2
       /\ b.isIncome = 1 /\ b.amount = 1 /\ b.categoryId = s.categoryId
       /\ i.isIncome = 1
       /\ overview.totalSpending = 1
       /\ overview.totalIncome = i.amount

(***************************************************************************)
(* Properties of the flat report's rows, under SpecFlat.                   *)
(***************************************************************************)
\* the budget of a row, 0 when it has none
BudgetOf(row) == IF row.budgetAmount = {} THEN 0 ELSE CHOOSE n \in row.budgetAmount : TRUE

Budgeted(row) == BudgetOf(row) > 0

OverBudget(row) == Budgeted(row) /\ row.spent > BudgetOf(row)

\* row a may stand before row b in the spending list
MayPrecede(a, b) ==
  /\ Budgeted(b) => Budgeted(a)
  /\ (Budgeted(a) /\ Budgeted(b)) =>
       /\ OverBudget(b) => OverBudget(a)
       /\ (OverBudget(a) <=> OverBudget(b)) =>
            a.spent * BudgetOf(b) >= b.spent * BudgetOf(a)
  /\ (~Budgeted(a) /\ ~Budgeted(b)) => a.spent >= b.spent

\* C11: in the overview's spending list every category with a budget above
\* 0 stands before every category without one; among the budgeted ones
\* those over budget (spent > budget) stand before the others and, within
\* each of the two groups, a higher share of the budget used stands first;
\* among the unbudgeted ones higher spent stands first.
C11_SpendingListOrder ==
  overview.forMonth # NoMonth =>
    \A i, j \in 1..Len(overview.spendingCategories) :
      i < j => MayPrecede(overview.spendingCategories[i], overview.spendingCategories[j])

\* the list is [A, B, C] for A over budget (budget 2, spent 3), B within
\* budget (budget 2, spent 1) and C without budget (spent 1), read from the
\* store in the order C, B, A
C11_Witness ==
  /\ Len(overview.spendingCategories) = 3
  /\ [i \in 1..3 |-> overview.spendingCategories[i].id] = <<1, 2, 3>>
  /\ [i \in 1..3 |-> overview.spendingCategories[i].spent] = <<3, 1, 1>>
  /\ [i \in 1..3 |-> overview.spendingCategories[i].budgetAmount] = <<{2}, {2}, {}>>
  /\ [i \in 1..3 |-> getAllCategories(categories)[i].id] = <<3, 2, 1>>

\* a stored budget above 0 for category id in month m
HasStoredBudget(id, m) ==
  \E r \in monthly_budgets : r.categoryId = id /\ r.month = m /\ r.budgetAmount > 0

\* C12: a category has a row in the overview's lists if and only if its
\* spent value is not 0 or it has a budget above 0 for the month; a category
\* whose transactions net to 0 and that has no budget has no row.
C12_RowIffSpentOrBudget ==
  overview.forMonth # NoMonth =>
    \A c \in categories :
      (RowsOf(overview.spendingCategories \o overview.incomeCategories, c.id) # {})
        <=> (Reported(c, overview.forMonth) # 0 \/ HasStoredBudget(c.id, overview.forMonth))

\* the overview is loaded; one category has a spend and a payback that
\* cancel and no budget and has no row; another has no transaction and a
\* budget and has a row
C12_Witness ==
  /\ overview.forMonth = month
  /\ \E c \in categories :
       /\ Cardinality(TxOf(c.id, month)) = 2
       /\ ~HasStoredBudget(c.id, month)
       /\ RowsOf(overview.spendingCategories \o overview.incomeCategories, c.id) = {}
  /\ \E c \in categories :
       /\ TxOf(c.id, month) = {}
       /\ HasStoredBudget(c.id, month)
       /\ RowsOf(overview.spendingCategories \o overview.incomeCategories, c.id) # {}

(***************************************************************************)
(* Properties of the grouped report, under SpecGroups.                     *)
(***************************************************************************)
\* the sections the budget screen renders from its view state
Sections == buildGroupSections(budget.rows, budget.groups)

\* the bucket of a stored category: Income for an income category, its group
\* for a spending category whose groupId is a stored group's id, Unassigned
\* for the other spending categories
StoredBucket(c) ==
  IF c.rule = "income" THEN IncomeKey
  ELSE IF \E g \in category_groups : c.groupId = {g.id}
       THEN GroupKey(CHOOSE id \in c.groupId : TRUE)
       ELSE UnassignedKey

\* the stored categories of a bucket
Members(key) == {c \in categories : StoredBucket(c) = key}

\* the stored sortOrder of the group with an id
SortOrderOf(id) == (CHOOSE g \in category_groups : g.id = id).sortOrder

\* C13: the sections are listed with Income first, then the named groups in
\* ascending stored sortOrder (ascending id among equal sortOrders), then
\* Unassigned last, and no bucket is listed twice.
C13_BucketOrder ==
  budget.forMonth # NoMonth =>
    \A i, j \in 1..Len(Sections) :
      i < j =>
        /\ Sections[j].key # IncomeKey
        /\ Sections[i].key # UnassignedKey
        /\ Sections[i].key # Sections[j].key
        /\ (Sections[i].key.bucket = "group" /\ Sections[j].key.bucket = "group") =>
             \/ SortOrderOf(Sections[i].key.id) < SortOrderOf(Sections[j].key.id)
             \/ /\ SortOrderOf(Sections[i].key.id) = SortOrderOf(Sections[j].key.id)
                /\ Sections[i].key.id < Sections[j].key.id

\* the budget screen is loaded and lists four sections: Income, the group
\* with the higher id (stored with the lower sortOrder), the group with the
\* lower id, Unassigned
C13_Witness ==
  /\ budget.forMonth = month
  /\ Len(Sections) = 4
  /\ Sections[1].key = IncomeKey
  /\ Sections[2].key.bucket = "group"
  /\ Sections[3].key.bucket = "group"
  /\ Sections[2].key.id > Sections[3].key.id
  /\ Sections[4].key = UnassignedKey

\* C14 as stated: every listed section has a member category with a
\* non-zero actual or a budget in the month.
C14_BucketOnlyIfActive ==
  budget.forMonth # NoMonth =>
    \A i \in 1..Len(Sections) :
      \E c \in Members(Sections[i].key) :
        Reported(c, budget.forMonth) # 0 \/ HasStoredBudget(c.id, budget.forMonth)

\* C14: a bucket is listed if and only if it has a member category, with or
\* without transactions or budget, and its rows are its member categories,
\* each once.
C14_BucketIffMember ==
  budget.forMonth # NoMonth =>
    /\ {Sections[i].key : i \in 1..Len(Sections)} = {StoredBucket(c) : c \in categories}
    /\ \A i \in 1..Len(Sections) :
         LET rows == Sections[i].rows
         IN /\ {rows[k].id : k \in 1..Len(rows)} = {c.id : c \in Members(Sections[i].key)}
            /\ Len(rows) = Cardinality(Members(Sections[i].key))

\* the budget screen is loaded; a named group whose member categories have
\* no transactions and no budget is listed, and a stored group without
\* member categories is not
C14_Witness ==
  /\ budget.forMonth = month
  /\ \E i \in 1..Len(Sections) :
       /\ Sections[i].key.bucket = "group"
       /\ \A c \in Members(Sections[i].key) :
            TxOf(c.id, month) = {} /\ ~HasStoredBudget(c.id, month)
  /\ \E g \in category_groups :
       /\ Members(GroupKey(g.id)) = {}
       /\ \A i \in 1..Len(Sections) : Sections[i].key # GroupKey(g.id)

\* the sum of the values above 0 that a set of categories reports for month m
RECURSIVE SumPositiveReported(_, _)
SumPositiveReported(cs, m) ==
  IF cs = {} THEN 0
  ELSE LET c == CHOOSE x \in cs : TRUE
       IN (IF Reported(c, m) > 0 THEN Reported(c, m) ELSE 0)
          + SumPositiveReported(cs \ {c}, m)

\* the sum of the values a set of categories reports for month m
RECURSIVE SumReported(_, _)
SumReported(cs, m) ==
  IF cs = {} THEN 0
  ELSE LET c == CHOOSE x \in cs : TRUE
       IN Reported(c, m) + SumReported(cs \ {c}, m)

\* the sum of the budget amounts of a set of budget rows
RECURSIVE SumAmounts(_)
SumAmounts(rs) ==
  IF rs = {} THEN 0
  ELSE LET r == CHOOSE x \in rs : TRUE
       IN r.budgetAmount + SumAmounts(rs \ {r})

\* the stored budget rows above 0 of a set of categories for month m
PositiveBudgets(cs, m) ==
  {r \in monthly_budgets :
     r.month = m /\ r.budgetAmount > 0 /\ \E c \in cs : c.id = r.categoryId}

\* C15: a section's spent is the sum of the positive values its member
\* categories report and its budgeted the sum of their budgets above 0, so
\* a member's profit does not lower it; the overview's total spending is
\* the sum of the values of all spending categories, profit included.
C15_BucketTotalsIgnoreProfit ==
  /\ budget.forMonth # NoMonth =>
       \A i \in 1..Len(Sections) :
         /\ Sections[i].spent
              = SumPositiveReported(Members(Sections[i].key), budget.forMonth)
         /\ Sections[i].budgeted
              = SumAmounts(PositiveBudgets(Members(Sections[i].key), budget.forMonth))
  /\ overview.forMonth # NoMonth =>
       overview.totalSpending
         = SumReported({c \in categories : c.rule = "spending"}, overview.forMonth)

\* both screens are loaded; a named group has two spending categories, one
\* reporting -2 (profit) and one 3, and the other spending categories
\* report 0: the group's section has spent 3, the overview's total is 1
C15_Witness ==
  /\ budget.forMonth = month
  /\ overview.forMonth = month
  /\ \E i \in 1..Len(Sections) :
       /\ Sections[i].key.bucket = "group"
       /\ {Reported(c, month) : c \in Members(Sections[i].key)} = {0 - 2, 3}
       /\ \A c \in categories :
            (c.rule = "spending" /\ c \notin Members(Sections[i].key))
              => Reported(c, month) = 0
       /\ Sections[i].spent = 3
  /\ overview.totalSpending = 1

(***************************************************************************)
(* Properties of the forms and the categories screen, under SpecStore.     *)
(***************************************************************************)
\* the ids of a table's rows
IdsOf(rows) == {r.id : r \in rows}

\* C16: every stored transaction's categoryId is the id of a stored
\* category, after any sequence of adding, editing and deleting
\* transactions and adding and deleting categories.
C16_CategoryIdsExist ==
  \A t \in transactions : t.categoryId \in IdsOf(categories)

\* C17: no step removes a category that has a transaction, and when a step
\* removes a category no budget row of any month refers to it afterwards.
C17_DeleteRefusedOrCascades ==
  [][\A c \in categories :
       c.id \notin IdsOf(categories') =>
         /\ \A t \in transactions : t.categoryId # c.id
         /\ \A r \in monthly_budgets' : r.categoryId # c.id]_vars

\* C20: a step that removes a group leaves the number of categories as it
\* is, and leaves every category as it is but for the groupId of the
\* categories of the removed group, which becomes null.
C20_GroupDeleteUnassigns ==
  [][\A g \in category_groups :
       g \notin category_groups' =>
         /\ Cardinality(categories') = Cardinality(categories)
         /\ \A c \in categories :
              \E d \in categories' :
                /\ d.id = c.id
                /\ d.name = c.name
                /\ d.rule = c.rule
                /\ d.groupId = (IF c.groupId = {g.id} THEN {} ELSE c.groupId)]_vars

\* a group was deleted on a table with a category of that group and a
\* category of another group: the first is still stored and has no group,
\* the second is still in its group
C20_Witness ==
  /\ deleted.op = "deleteCategoryGroup"
  /\ \E c \in deleted.categories :
       /\ c.groupId = {deleted.id}
       /\ [c EXCEPT !.groupId = {}] \in categories
  /\ \E c \in deleted.categories :
       /\ c.groupId # {}
       /\ c.groupId # {deleted.id}
       /\ c \in categories

(***************************************************************************)
(* Properties of the budget operations, under SpecBudgets.                 *)
(***************************************************************************)
\* the table has a row for category id in month m
HasRow(mb, id, m) == \E r \in mb : r.categoryId = id /\ r.month = m

\* the rows of the table but the one of category id in month m
OtherRows(mb, id, m) == {r \in mb : r.categoryId # id \/ r.month # m}

\* C18: every stored budget row has an amount above 0, whatever budget
\* edits, rollovers, category deletions and month resets were made; and on
\* every table reached, setMonthlyBudget with null, 0 or a negative amount
\* leaves no row for the category and month.
C18_StoredBudgetsPositive ==
  /\ \A r \in monthly_budgets : r.budgetAmount > 0
  /\ \A id \in CategoryIds, m \in Months, x \in {{}, {0}, {0 - 1}} :
       ~HasRow(setMonthlyBudget(monthly_budgets, id, m, x), id, m)

\* the budget screen shows, for the selected month, a budget of a stored
\* category whose row is gone from the table while the month was not reset:
\* the budget was cleared or set to 0 in the editor
C18_Witness ==
  /\ budget.forMonth = month
  /\ transactions # {}
  /\ \E c \in categories :
       /\ \E i \in 1..Len(budget.rows) :
            budget.rows[i].id = c.id /\ budget.rows[i].budgetAmount # {}
       /\ ~HasRow(monthly_budgets, c.id, month)

\* C19: a budget edit for a category in the selected month leaves every
\* row of another category or another month as it is.
C19_SetBudgetChangesOneRow ==
  [][\A id \in CategoryIds, v \in EditValues :
       SaveEdit(id, v) =>
         OtherRows(monthly_budgets', id, month) = OtherRows(monthly_budgets, id, month)]_vars

\* the overview's load rolled a month over into the next and shows the
\* budgets it copied; the source month is selected now and a budget of it
\* was edited to another amount; the target month's rows are still the
\* ones the overview shows
C19_Witness ==
  /\ overview.copiedFrom # NoMonth
  /\ overview.copiedFrom = month
  /\ overview.forMonth # month
  /\ \E id \in CategoryIds :
       \E a, b \in Amounts :
         /\ a # b
         /\ <<id, a>> \in Pairs(monthly_budgets, overview.forMonth)
         /\ <<id, b>> \in Pairs(monthly_budgets, month)
  /\ Positive(RowBudgets(overview.spendingCategories \o overview.incomeCategories))
       = Pairs(monthly_budgets, overview.forMonth)

(***************************************************************************)
(* The groups screen (src/app/groups.tsx) and the group statements of      *)
(* src/db/queries.ts.  Every statement of an async query function is       *)
(* issued to the database when the statement before it of the same call    *)
(* has returned; the database runs the statements it was given in the      *)
(* order they were issued.  dbQueue holds, for every call under way, the   *)
(* statement it waits for and what the call does after it.                 *)
(***************************************************************************)
MaxOrderEvents == 4

\* SELECT MAX(sortOrder) as maxOrder FROM category_groups; null on no row
MaxSortOrder(groups) ==
  IF groups = {} THEN {}
  ELSE {CHOOSE n \in {g.sortOrder : g \in groups} : \A g \in groups : g.sortOrder <= n}

\* row?.maxOrder ?? 0
MaxOrZero(maxOrder) == IF maxOrder = {} THEN 0 ELSE CHOOSE n \in maxOrder : TRUE

\* insertCategoryGroup: (row?.maxOrder ?? 0) + 1
nextOrder(groups) == MaxOrZero(MaxSortOrder(groups)) + 1

\* INSERT INTO category_groups (name, sortOrder) VALUES (?, ?)
insertCategoryGroup(groups, id, name, sortOrder) ==
  groups \cup {[id |-> id, name |-> name, sortOrder |-> sortOrder]}

\* UPDATE category_groups SET sortOrder = ? WHERE id = ?
updateGroupSortOrders(groups, id, sortOrder) ==
  {IF g.id = id THEN [g EXCEPT !.sortOrder = sortOrder] ELSE g : g \in groups}

\* move: [next[index], next[swapIndex]] = [next[swapIndex], next[index]]
Swapped(list, index, swapIndex) ==
  [i \in 1..Len(list) |->
     IF i = index THEN list[swapIndex] ELSE IF i = swapIndex THEN list[index] ELSE list[i]]

\* move: next.map((g, i) => ({ ...g, sortOrder: i })), i counting from 0
Renumbered(next) == [i \in 1..Len(next) |-> [next[i] EXCEPT !.sortOrder = i - 1]]

\* a statement in dbQueue
Statement(kind, name, id, sortOrder, updates) ==
  [kind |-> kind, name |-> name, id |-> id, sortOrder |-> sortOrder, updates |-> updates]

\* the names the user types for a new group: the name of group 1 and a new one
TypedGroupNames == {21, 23}

\* the groups screen gets the focus: reload() issues getCategoryGroups()
GroupsFocus ==
  /\ CanAct
  /\ callsLeft' = callsLeft - 1
  /\ dbQueue' = Append(dbQueue, Statement("reload", NoName, 0, 0, <<>>))
  /\ UNCHANGED <<storeVars, month, viewVars, loads, uiVars, nextGroupId, groupScreen, settings, alert, history>>

\* the user types a name into the field of the new group: setNewName
SetNewName(name) ==
  /\ CanAct
  /\ groupScreen.newName # name
  /\ callsLeft' = callsLeft - 1
  /\ groupScreen' = [groupScreen EXCEPT !.newName = name]
  /\ UNCHANGED <<storeVars, month, viewVars, loads, uiVars, nextGroupId, dbQueue, settings, alert, history>>

\* handleAdd of GroupsScreen with a name typed: insertCategoryGroup issues
\* its SELECT MAX
GroupsHandleAdd ==
  /\ CanAct
  /\ groupScreen.newName # NoName
  /\ callsLeft' = callsLeft - 1
  /\ dbQueue' = Append(dbQueue, Statement("max", groupScreen.newName, 0, 0, <<>>))
  /\ UNCHANGED <<storeVars, month, viewVars, loads, uiVars, nextGroupId, groupScreen, settings, alert, history>>

\* move(index, direction) on the list the screen holds: the list is
\* swapped and renumbered in the state, and updateGroupSortOrders issues
\* the UPDATE of the first group
move(index, direction) ==
  /\ CanAct
  /\ index \in 1..Len(groupScreen.groups)
  /\ LET swapIndex == IF direction = "up" THEN index - 1 ELSE index + 1
         updated == Renumbered(Swapped(groupScreen.groups, index, swapIndex))
     IN /\ swapIndex >= 1
        /\ swapIndex <= Len(groupScreen.groups)
        /\ groupScreen' = [groupScreen EXCEPT !.groups = updated]
        /\ dbQueue' = Append(dbQueue, Statement("update", NoName, 0, 0, updated))
  /\ callsLeft' = callsLeft - 1
  /\ UNCHANGED <<storeVars, month, viewVars, loads, uiVars, nextGroupId, settings, alert, history>>

\* handleDelete of GroupsScreen, confirmed: deleteCategoryGroup issues its
\* UPDATE of the categories
GroupsHandleDelete(index) ==
  /\ CanAct
  /\ index \in 1..Len(groupScreen.groups)
  /\ callsLeft' = callsLeft - 1
  /\ dbQueue' = Append(dbQueue,
                       Statement("ungroup", NoName, groupScreen.groups[index].id, 0, <<>>))
  /\ UNCHANGED <<storeVars, month, viewVars, loads, uiVars, nextGroupId, groupScreen, settings, alert, history>>

\* the database runs the statement at the head of the queue and the call
\* that issued it goes on to its next statement
RunStatement ==
  /\ dbQueue # <<>>
  /\ LET st == Head(dbQueue)
         rest == Tail(dbQueue)
     IN CASE st.kind = "reload" ->
               /\ groupScreen' = [groupScreen EXCEPT
                                    !.groups = getCategoryGroups(category_groups)]
               /\ dbQueue' = rest
               /\ UNCHANGED <<categories, category_groups, nextGroupId>>
          [] st.kind = "max" ->
               /\ dbQueue' = Append(rest, Statement("insert", st.name, 0,
                                                    nextOrder(category_groups), <<>>))
               /\ UNCHANGED <<categories, category_groups, nextGroupId, groupScreen>>
          [] st.kind = "insert" ->
               IF \E g \in category_groups : g.name = st.name
               THEN /\ dbQueue' = rest
                    /\ UNCHANGED <<categories, category_groups, nextGroupId, groupScreen>>
               ELSE /\ category_groups' = insertCategoryGroup(category_groups, nextGroupId,
                                                              st.name, st.sortOrder)
                    /\ nextGroupId' = nextGroupId + 1
                    /\ groupScreen' = [groupScreen EXCEPT !.newName = NoName]
                    /\ dbQueue' = Append(rest, Statement("reload", NoName, 0, 0, <<>>))
                    /\ UNCHANGED categories
          [] st.kind = "update" ->
               /\ category_groups' = updateGroupSortOrders(category_groups,
                                       st.updates[1].id, st.updates[1].sortOrder)
               /\ dbQueue' = IF Len(st.updates) > 1
                             THEN Append(rest, [st EXCEPT !.updates = Tail(st.updates)])
                             ELSE rest
               /\ UNCHANGED <<categories, nextGroupId, groupScreen>>
          [] st.kind = "ungroup" ->
               /\ categories' = deleteCategoryGroup(categories, st.id)
               /\ dbQueue' = Append(rest, [st EXCEPT !.kind = "delete"])
               /\ UNCHANGED <<category_groups, nextGroupId, groupScreen>>
          [] st.kind = "delete" ->
               /\ category_groups' = deleteCategoryGroupRow(category_groups, st.id)
               /\ dbQueue' = Append(rest, Statement("reload", NoName, 0, 0, <<>>))
               /\ UNCHANGED <<categories, nextGroupId, groupScreen>>
  /\ UNCHANGED <<nextCategoryId, transactions, monthly_budgets, month, viewVars, loads,
                 callsLeft, uiVars, settings, alert, history>>

\* the groups are none, or two groups that were inserted one after the
\* other and then put in either order
InitOrder ==
  /\ categories = {[id |-> 1, name |-> 9, rule |-> "spending", groupId |-> {1}],
                   [id |-> 2, name |-> 8, rule |-> "spending", groupId |-> {}]}
  /\ nextCategoryId = 3
  /\ category_groups \in {{}} \cup GroupTables
  /\ transactions = {}
  /\ monthly_budgets = {}
  /\ Started
  /\ month = MonthAt(1)
  /\ callsLeft = MaxOrderEvents

NextOrder ==
  \/ GroupsFocus
  \/ \E name \in TypedGroupNames : SetNewName(name)
  \/ GroupsHandleAdd
  \/ \E index \in 1..(MaxGroups + 1) : \E direction \in {"up", "down"} : move(index, direction)
  \/ \E index \in 1..(MaxGroups + 1) : GroupsHandleDelete(index)
  \/ RunStatement

SpecOrder == InitOrder /\ [][NextOrder]_vars

\* C21: once every statement issued has run, no two stored groups have the
\* same sortOrder.
C21_SortOrdersDistinct ==
  dbQueue = <<>> =>
    \A g, h \in category_groups : g.sortOrder = h.sortOrder => g = h

(***************************************************************************)
(* Export and import (src/db/queries.ts 259-304, src/app/settings.tsx      *)
(* 52-117).  A value of the JSON file that may be missing is a set with    *)
(* no element; a text that is there is 1.                                  *)
(***************************************************************************)
MaxPortEvents == 3

\* the mutant: the row is exported without its isIncome
ExportedRow_noIncome(t) ==
  [date |-> t.date, description |-> {1}, isIncome |-> {}, amount |-> t.amount,
   categoryId |-> t.categoryId]

\* exportMonthData: transactions.map((t) => ({ date, description, account,
\* isIncome, amount, categoryId, notes })); the id is not exported
ExportedRow(t) ==
  [date |-> t.date, description |-> {1}, isIncome |-> {t.isIncome}, amount |-> t.amount,
   categoryId |-> t.categoryId]

\* exportMonthData(month): the month's transactions in the order of
\* getTransactionsByMonth, the categories and the month's budgets
exportMonthData(txs, cats, mb, m) ==
  LET list == getTransactionsByMonth(txs, m)
      catList == getAllCategories(cats)
  IN [month |-> m,
      categories |-> [i \in 1..Len(catList) |->
                        [id |-> catList[i].id, name |-> catList[i].name,
                         rule |-> catList[i].rule]],
      budgets |-> getMonthlyBudgets(mb, m),
      transactions |-> {[i \in 1..Len(list) |-> ExportedRow(list[i])]}]

\* handleImport: parsed.transactions.map((t) => ({ ..., isIncome: t.isIncome ?? 0, ... }))
TransactionInputs(rows) ==
  [i \in 1..Len(rows) |->
     [date |-> rows[i].date, description |-> rows[i].description,
      isIncome |-> IF rows[i].isIncome = {} THEN 0 ELSE CHOOSE v \in rows[i].isIncome : TRUE,
      amount |-> rows[i].amount, categoryId |-> rows[i].categoryId]]

\* the INSERT of a row is refused: description TEXT NOT NULL,
\* amount REAL NOT NULL CHECK(amount > 0)
Refused(tx) == tx.description = {} \/ ~(tx.amount > 0)

\* the mutant: the loop goes on after a row that was refused
importTransactions_skip(txs, nextId, data, count) ==
  LET RECURSIVE go(_, _, _, _)
      go(t, n, d, c) ==
        IF d = <<>> THEN [transactions |-> t, nextId |-> n, count |-> {c}, failed |-> FALSE]
        ELSE IF Refused(Head(d)) THEN go(t, n, Tail(d), c)
        ELSE go(insertTransaction(t, n, Head(d)), n + 1, Tail(d), c + 1)
  IN go(txs, nextId, data, count)

\* importTransactions: for (const tx of data) { await db.runAsync(INSERT ...);
\* count++ } return count; a refused INSERT throws out of the loop
RECURSIVE importTransactions(_, _, _, _)
importTransactions(txs, nextId, data, count) ==
  IF data = <<>>
  THEN [transactions |-> txs, nextId |-> nextId, count |-> {count}, failed |-> FALSE]
  ELSE IF Refused(Head(data))
  THEN [transactions |-> txs, nextId |-> nextId, count |-> {}, failed |-> TRUE]
  ELSE importTransactions(insertTransaction(txs, nextId, Head(data)), nextId + 1,
                          Tail(data), count + 1)

\* files made by hand: one without a transactions array, one whose second
\* of three rows has amount 0, one whose first row has no description, and
\* one whose rows can all be stored, the first without isIncome
HandMadeFiles ==
  LET row(day, d, i, a, c) ==
        [date |-> DateIn(MonthAt(1), day), description |-> d, isIncome |-> i, amount |-> a,
         categoryId |-> c]
  IN {[month |-> MonthAt(1), categories |-> <<>>, budgets |-> {}, transactions |-> {}],
      [month |-> MonthAt(1), categories |-> <<>>, budgets |-> {},
       transactions |-> {<<row(3, {1}, {0}, 2, 1), row(4, {1}, {1}, 0, 2),
                           row(5, {1}, {1}, 1, 2)>>}],
      [month |-> MonthAt(1), categories |-> <<>>, budgets |-> {},
       transactions |-> {<<row(3, {}, {0}, 2, 1), row(4, {1}, {1}, 1, 2)>>}],
      [month |-> MonthAt(1), categories |-> <<>>, budgets |-> {},
       transactions |-> {<<row(3, {1}, {}, 2, 1), row(4, {1}, {1}, 1, 2)>>}]}

\* handleExport: the file holds exportMonthData(month)
HandleExport ==
  /\ CanAct
  /\ settings' = [settings EXCEPT
                    !.file = {exportMonthData(transactions, categories, monthly_budgets,
                                              month)},
                    !.source = transactions]
  /\ callsLeft' = callsLeft - 1
  /\ UNCHANGED <<storeVars, month, viewVars, loads, uiVars, orderVars, alert, history>>

\* handleImport with the file picked and the import confirmed: a file
\* without a transactions array is refused, the rows of another are given
\* to importTransactions
HandleImport(file) ==
  /\ CanAct
  /\ callsLeft' = callsLeft - 1
  /\ IF file.transactions = {}
     THEN UNCHANGED <<transactions, nextTransactionId, settings>>
     ELSE LET rows == CHOOSE r \in file.transactions : TRUE
              done == importTransactions(transactions, nextTransactionId,
                                         TransactionInputs(rows), 0)
          IN /\ transactions' = done.transactions
             /\ nextTransactionId' = done.nextId
             /\ settings' = [settings EXCEPT !.count = done.count, !.failed = done.failed]
  /\ UNCHANGED <<categories, nextCategoryId, category_groups, monthly_budgets, month,
                 viewVars, loads, screen, addForm, editForm, catScreen, deleted, orderVars,
                 alert, history>>

\* handleReset on a month without transactions: the Alert says so and
\* nothing is deleted
ResetRefused ==
  /\ CanAct
  /\ countTransactionsByMonth(transactions, month) = 0
  /\ alert' = {"Nothing to Reset"}
  /\ callsLeft' = callsLeft - 1
  /\ UNCHANGED <<storeVars, month, viewVars, loads, uiVars, orderVars, settings, history>>

\* the files the user can pick: the one exported and the ones made by hand
PickedFiles == settings.file \cup HandMadeFiles

\* the transactions of the two months the tables of the model are made of
PortTxUniverse ==
  {[id |-> 1, date |-> DateIn(MonthAt(0), 28), isIncome |-> 0, amount |-> 2, categoryId |-> 1],
   [id |-> 2, date |-> DateIn(MonthAt(1), 10), isIncome |-> 0, amount |-> 2, categoryId |-> 1],
   [id |-> 3, date |-> DateIn(MonthAt(1), 10), isIncome |-> 1, amount |-> 1, categoryId |-> 1],
   [id |-> 4, date |-> DateIn(MonthAt(1), 12), isIncome |-> 1, amount |-> 2, categoryId |-> 2]}

InitPort ==
  /\ categories = {[id |-> 1, name |-> 9, rule |-> "spending", groupId |-> {}],
                   [id |-> 2, name |-> 8, rule |-> "income", groupId |-> {}]}
  /\ nextCategoryId = 3
  /\ category_groups = {}
  /\ transactions \in SUBSET PortTxUniverse
  /\ monthly_budgets \in
       {{}, {[categoryId |-> 1, month |-> MonthAt(1), budgetAmount |-> 1]},
        {[categoryId |-> 1, month |-> MonthAt(0), budgetAmount |-> 2],
         [categoryId |-> 1, month |-> MonthAt(1), budgetAmount |-> 1],
         [categoryId |-> 2, month |-> MonthAt(1), budgetAmount |-> 2]}}
  /\ Started
  /\ month \in {MonthAt(0), MonthAt(1)}
  /\ callsLeft = MaxPortEvents

NextPort ==
  \/ HandleExport
  \/ \E file \in PickedFiles : HandleImport(file)
  \/ MonthReset
  \/ ResetRefused

SpecPort == InitPort /\ [][NextPort]_vars

\* the sum of the signed amounts of the transactions of txs that are of
\* month m and booked on category id
NetIn(txs, id, m) ==
  SumSigned({t \in txs : HasPrefix(t.date, m) /\ t.categoryId = id})

\* the sum of the signed amounts of the transactions of txs that are of
\* month m and booked on a category of the rule
NetOfRuleIn(txs, rule, m) ==
  SumSigned({t \in txs : /\ HasPrefix(t.date, m)
                         /\ \E c \in categories : c.id = t.categoryId /\ c.rule = rule})

\* C22: importing the file exported for a month into a store with the
\* same categories and no transactions gives, for that month, the signed sum
\* of every category, and with it the income and spending totals, that the
\* store had which the file was exported from.
C22_ImportRestoresSums ==
  [][\A file \in settings.file :
       (HandleImport(file) /\ transactions = {}) =>
          /\ \A id \in CategoryIds :
               NetIn(transactions', id, file.month) = NetIn(settings.source, id, file.month)
          /\ \A rule \in Rules :
               NetOfRuleIn(transactions', rule, file.month)
                 = NetOfRuleIn(settings.source, rule, file.month)]_vars

\* a month with a spend and an income on the spending category and an
\* income on the income category was exported and reset, and the file was
\* imported into the empty table: the three transactions are stored again
\* under new ids
C22_Witness ==
  /\ settings.count = {3}
  /\ \E file \in settings.file : file.month = month
  /\ Cardinality(settings.source) = 3
  /\ Cardinality(transactions) = 3
  /\ \A t \in transactions : t.id >= 5
  /\ NetIn(transactions, 1, month) = 0 - 1
  /\ NetIn(transactions, 2, month) = 2

\* the place of the first row of data whose INSERT is refused, or one past
\* the end when none is
FirstRefused(data) ==
  IF \E i \in 1..Len(data) : Refused(data[i])
  THEN CHOOSE i \in 1..Len(data) :
         Refused(data[i]) /\ \A j \in 1..(i - 1) : ~Refused(data[j])
  ELSE Len(data) + 1

\* row i of data as it is stored when rows 1..i were inserted in this order
\* and first was the next id
StoredAs(data, i, first) ==
  [id |-> first + i - 1, date |-> data[i].date, isIncome |-> data[i].isIncome,
   amount |-> data[i].amount, categoryId |-> data[i].categoryId]

\* C30: importTransactions inserts the rows in input order; when no INSERT
\* is refused it returns the input length; when the INSERT of row k is
\* refused the caller gets the error, the rows before k are stored and the
\* rows from k on are not.
C30_ImportStopsAtFirstRefused ==
  [][\A file \in PickedFiles :
       (file.transactions # {} /\ HandleImport(file)) =>
          LET data == TransactionInputs(CHOOSE r \in file.transactions : TRUE)
              k == FirstRefused(data)
          IN /\ transactions' = transactions \cup
                   {StoredAs(data, i, nextTransactionId) : i \in 1..(k - 1)}
             /\ k = Len(data) + 1 => settings'.count = {Len(data)} /\ ~settings'.failed
             /\ k <= Len(data) => settings'.count = {} /\ settings'.failed]_vars

\* the file whose second of three rows has amount 0 was imported: the
\* import failed, the first row is stored and the third is not
C30_Witness ==
  /\ settings.failed
  /\ \E t \in transactions : t.date = DateIn(MonthAt(1), 3) /\ t.amount = 2
  /\ ~\E t \in transactions : t.date = DateIn(MonthAt(1), 5)

(***************************************************************************)
(* The add and edit forms with the texts typed into them (src/app/add.tsx  *)
(* 56-91, src/unnamed/part_004 604-631).  A text is a sequence of          *)
(* character codes: " " is 32, "-" is 45, "a" is 97.                       *)
(***************************************************************************)
MaxFormEvents == 4

Blank == 32

\* text.trim()
RECURSIVE Trim(_)
Trim(text) ==
  IF text = <<>> THEN <<>>
  ELSE IF Head(text) = Blank THEN Trim(Tail(text))
  ELSE IF text[Len(text)] = Blank THEN Trim(SubSeq(text, 1, Len(text) - 1))
  ELSE text

\* the decimal digits a text starts with
RECURSIVE LeadingDigits(_)
LeadingDigits(text) ==
  IF text = <<>> \/ ~(Head(text) \in 48..57) THEN <<>>
  ELSE <<Head(text)>> \o LeadingDigits(Tail(text))

\* parseFloat(text) for a text of blanks, "-", digits and letters: leading
\* blanks are skipped, a "-" is the sign, the digits that follow are the
\* number and what comes after them is ignored; NaN (no element) when no
\* digit follows
parseFloat(text) ==
  LET t == Trim(text)
      negative == t # <<>> /\ Head(t) = Hyphen[1]
      digits == LeadingDigits(IF negative THEN Tail(t) ELSE t)
  IN IF digits = <<>> THEN {}
     ELSE {IF negative THEN 0 - ParseNumber(digits) ELSE ParseNumber(digits)}

\* isNaN(num) || num <= 0
NotPositive(num) == num = {} \/ \E n \in num : n <= 0

\* the mutant: the description is not looked at
validate_noDescription(description, account, amount, categoryId) ==
  IF Trim(account) = <<>> THEN {"Account is required"}
  ELSE IF NotPositive(parseFloat(amount)) THEN {"Amount must be a positive number"}
  ELSE IF categoryId = {} THEN {"Category is required"}
  ELSE {}

\* validate() of AddScreen: the error, or null (no element)
validate(description, account, amount, categoryId) ==
  IF Trim(description) = <<>> THEN {"Description is required"}
  ELSE IF Trim(account) = <<>> THEN {"Account is required"}
  ELSE IF NotPositive(parseFloat(amount)) THEN {"Amount must be a positive number"}
  ELSE IF categoryId = {} THEN {"Category is required"}
  ELSE {}

\* validate() of EditScreen: the date is looked at first
EditValidate(date, description, account, amount, categoryId) ==
  IF Trim(date) = <<>> THEN {"Date is required"}
  ELSE validate(description, account, amount, categoryId)

\* the INSERT or UPDATE of the row is refused: amount REAL NOT NULL
\* CHECK(amount > 0), categoryId INTEGER NOT NULL
RowRefused(amount, categoryId) == NotPositive(amount) \/ categoryId = {}

\* what is typed into the description and account fields: nothing, a
\* blank, a letter
FieldTexts == {<<>>, <<Blank>>, <<97>>}

\* amounts typed that do not start with a number: "", "a", "-"
NonNumericAmounts == {<<>>, <<97>>, Hyphen}

\* amounts typed that are a number not above 0: "-1", "0"
NonPositiveAmounts == {Hyphen \o <<Digit(1)>>, <<Digit(0)>>}

\* amounts typed that start with a number above 0: "1", "2", " 1", "2a"
PositiveAmounts == {<<Digit(1)>>, <<Digit(2)>>, <<Blank, Digit(1)>>, <<Digit(2), 97>>}

AmountTexts == NonNumericAmounts \cup NonPositiveAmounts \cup PositiveAmounts

\* handleSubmit of AddScreen with the texts of its fields: on a validation
\* error the Alert is shown, else the transaction is inserted, the form is
\* reset and the transaction list is shown
AddHandleSubmit(description, account, amount) ==
  /\ CanAct
  /\ screen = "add"
  /\ callsLeft' = callsLeft - 1
  /\ LET error == validate(description, account, amount, addForm.categoryId)
     IN IF error # {}
        THEN /\ alert' = error
             /\ UNCHANGED <<transactions, nextTransactionId, addForm, screen>>
        ELSE IF RowRefused(parseFloat(amount), addForm.categoryId)
        THEN UNCHANGED <<transactions, nextTransactionId, addForm, screen, alert>>
        ELSE /\ transactions' = insertTransaction(transactions, nextTransactionId,
                                   [date |-> DateIn(month, 15),
                                    isIncome |-> IF addForm.isIncome THEN 1 ELSE 0,
                                    amount |-> CHOOSE n \in parseFloat(amount) : TRUE,
                                    categoryId |-> CHOOSE id \in addForm.categoryId : TRUE])
             /\ nextTransactionId' = nextTransactionId + 1
             /\ addForm' = [addForm EXCEPT
                              !.isIncome = FALSE,
                              !.categoryId = FirstOf(addForm.categories, addForm.categoryId)]
             /\ screen' = "transactions"
             /\ UNCHANGED alert
  /\ UNCHANGED <<orderVars, settings, history, categories, nextCategoryId, category_groups,
                 monthly_budgets, month, viewVars, loads, editForm, catScreen, deleted>>

\* the dates the edit form can hold: the one loaded, none, a blank
DateTexts == {editForm.date, <<>>, <<Blank>>}

\* handleSubmit of EditScreen with the texts of its fields: on a
\* validation error the Alert is shown, else the row with the form's id is
\* updated and the transaction list is shown
EditHandleSubmit(date, description, account, amount) ==
  /\ CanAct
  /\ screen = "edit"
  /\ editForm.id # {}
  /\ callsLeft' = callsLeft - 1
  /\ LET error == EditValidate(date, description, account, amount, editForm.categoryId)
     IN IF error # {}
        THEN /\ alert' = error
             /\ UNCHANGED <<transactions, screen>>
        ELSE IF RowRefused(parseFloat(amount), editForm.categoryId)
        THEN UNCHANGED <<transactions, screen, alert>>
        ELSE /\ transactions' = updateTransaction(transactions,
                                   CHOOSE id \in editForm.id : TRUE,
                                   [date |-> Trim(date),
                                    isIncome |-> IF editForm.isIncome THEN 1 ELSE 0,
                                    amount |-> CHOOSE n \in parseFloat(amount) : TRUE,
                                    categoryId |-> CHOOSE id \in editForm.categoryId : TRUE])
             /\ screen' = "transactions"
             /\ UNCHANGED alert
  /\ UNCHANGED <<orderVars, settings, history, categories, nextCategoryId, category_groups,
                 monthly_budgets, month, viewVars, loads, nextTransactionId, addForm, editForm,
                 catScreen, deleted>>

\* no category and no transaction, or a spending and an income category
\* and one transaction or none
InitForms ==
  /\ \/ /\ categories = {}
        /\ transactions = {}
     \/ /\ categories = {[id |-> 1, name |-> 9, rule |-> "spending", groupId |-> {}],
                         [id |-> 2, name |-> 8, rule |-> "income", groupId |-> {}]}
        /\ transactions \in
             {{}, {[id |-> 1, date |-> DateIn(MonthAt(1), 10), isIncome |-> 0, amount |-> 1,
                    categoryId |-> 1]}}
  /\ nextCategoryId = 3
  /\ category_groups = {}
  /\ monthly_budgets = {}
  /\ Started
  /\ month = MonthAt(1)
  /\ callsLeft = MaxFormEvents

NextForms ==
  \/ OpenAdd
  \/ \E i \in 1..Len(addForm.categories) : AddSelect(i)
  \/ \E description \in FieldTexts, account \in FieldTexts, amount \in AmountTexts :
       AddHandleSubmit(description, account, amount)
  \/ OpenTransactions
  \/ \E id \in TransactionIds : TxEdit(id)
  \/ \E i \in 1..Len(editForm.categories) : EditSelect(i)
  \/ \E date \in DateTexts, description \in FieldTexts, account \in FieldTexts,
        amount \in AmountTexts :
       EditHandleSubmit(date, description, account, amount)

SpecForms == InitForms /\ [][NextForms]_vars

\* a text is empty or holds blanks only
IsEmpty(text) == \A i \in 1..Len(text) : text[i] = Blank

NoneInFlight(kind) == \A p \in Slots : loads[p].kind # kind

\* C24: once no load of a screen is in flight, the screen shows the result
\* of the load it started last: the month it shows is the month that load
\* was started for.
C24_LaterLoadWins ==
  /\ (NoneInFlight("overview") /\ history.overview # NoMonth)
       => overview.forMonth = history.overview
  /\ (NoneInFlight("budget") /\ history.budget # NoMonth)
       => budget.forMonth = history.budget

\* the transactions of txs whose date starts with m
OfMonth(txs, m) == {t \in txs : SubSeq(t.date, 1, Len(m)) = m}

\* the rows of mb that are of month m
RowsOfMonth(mb, m) == {r \in mb : r.month = m}

\* after the step nothing of the selected month is stored and the rest is
\* as it was
MonthGone ==
  /\ OfMonth(transactions', month) = {}
  /\ RowsOfMonth(monthly_budgets', month) = {}
  /\ transactions' = transactions \ OfMonth(transactions, month)
  /\ monthly_budgets' = monthly_budgets \ RowsOfMonth(monthly_budgets, month)

C26_ClearedStaysCleared ==
  [][\A p \in Slots :
       (ReadStep(p) /\ loads[p].kind = "budget" /\ p \in history.late) =>
          \A pair \in history.cleared :
             pair[2] = loads[p].month =>
               \A i \in 1..Len(budget'.rows) :
                  budget'.rows[i].id = pair[1] => budget'.rows[i].budgetAmount = {}]_vars

(***************************************************************************)
(* The percentages the screens draw their bars with (src/app/index.tsx     *)
(* 129-131, 194-196, 244-249, budget screen 199-204, 270, 325-327), kept   *)
(* as exact fractions num / den with den > 0 like pctUsed.                 *)
(***************************************************************************)
\* the value 0
ZeroPct == [num |-> 0, den |-> 1]

\* Math.min(pct, 100)
CapPct(pct) == IF pct.num > 100 * pct.den THEN [num |-> 100, den |-> 1] ELSE pct

\* overallPct of both screens:
\* total > 0 ? Math.min((spent / total) * 100, 100) : 0
overallPct(spent, total) ==
  IF total > 0 THEN CapPct([num |-> spent * 100, den |-> total]) ELSE ZeroPct

\* chart bar: cat.spent > 0 ? Math.min(cat.pctUsed, 100) : 0
actualWidth(cat) == IF cat.spent > 0 THEN CapPct(cat.pctUsed) ELSE ZeroPct

\* detail card: hasBudget && !isProfit ? Math.min(cat.pctUsed, 100) : 0
displayPct(cat) ==
  IF HasBudget(cat.budgetAmount) /\ ~(cat.spent < 0) THEN CapPct(cat.pctUsed) ELSE ZeroPct

\* renderCatCard: hasBudget && !isProfit
\*   ? Math.min((row.actual / row.budgetAmount) * 100, 100) : 0
CardPct(row) ==
  IF HasBudget(row.budgetAmount) /\ ~(row.actual < 0)
  THEN CapPct([num |-> row.actual * 100, den |-> CHOOSE n \in row.budgetAmount : TRUE])
  ELSE ZeroPct

\* group bar: section.budgeted > 0
\*   ? Math.min((section.spent / section.budgeted) * 100, 100) : 0
SectionPct(section) ==
  IF section.budgeted > 0
  THEN CapPct([num |-> section.spent * 100, den |-> section.budgeted])
  ELSE ZeroPct

\* budgetedCats: the spending rows with a budget above 0
budgetedCats(spendingCategories) ==
  SelectSeq(spendingCategories, LAMBDA c : HasBudget(c.budgetAmount))

\* 0 <= pct <= 100
InRange(pct) == 0 <= pct.num /\ pct.num <= 100 * pct.den

\* the bars of the overview's chart and cards are in range
OverviewBarsInRange ==
  /\ \A i \in 1..Len(overview.spendingCategories) :
       InRange(displayPct(overview.spendingCategories[i]))
  /\ LET cats == budgetedCats(overview.spendingCategories)
     IN \A i \in 1..Len(cats) : InRange(actualWidth(cats[i]))

\* the bars of the budget screen are in range
BudgetBarsInRange ==
  /\ InRange(overallPct(budget.totalSpent, budget.totalBudget))
  /\ \A i \in 1..Len(budget.rows) : InRange(CardPct(budget.rows[i]))
  /\ LET sections == buildGroupSections(budget.rows, budget.groups)
     IN \A i \in 1..Len(sections) : InRange(SectionPct(sections[i]))

\* C27: every percentage the two screens compute for a bar is in 0..100.
C27_PercentagesInRange ==
  /\ InRange(overallPct(overview.totalSpending, overview.totalBudgeted))
  /\ OverviewBarsInRange
  /\ BudgetBarsInRange

(***************************************************************************)
(* buildGroupSections as a partition of the rows, under SpecGroups.        *)
(***************************************************************************)
\* the places of the sections that hold the row
SectionsHolding(sections, row) ==
  {j \in 1..Len(sections) :
     \E i \in 1..Len(sections[j].rows) : sections[j].rows[i] = row}

\* the row's groupId is the id of a group of the loaded list
InLoadedGroup(row) ==
  \E i \in 1..Len(budget.groups) : row.groupId = {budget.groups[i].id}

\* the sum of the budgeted totals of the sections that are not Income
RECURSIVE SpendingBudgeted(_)
SpendingBudgeted(sections) ==
  IF sections = <<>> THEN 0
  ELSE (IF Head(sections).key = IncomeKey THEN 0 ELSE Head(sections).budgeted)
       + SpendingBudgeted(Tail(sections))

\* C28: every row of the budget screen is in exactly one returned section:
\* an income row in Income whatever its groupId, a spending row of a loaded
\* group in that group's section, any other spending row in Unassigned; and
\* the budgeted totals of the sections other than Income add up to the
\* screen's total budget
C28_RowsInExactlyOneBucket ==
  LET sections == buildGroupSections(budget.rows, budget.groups)
  IN /\ \A i \in 1..Len(budget.rows) :
          LET row == budget.rows[i]
              at == SectionsHolding(sections, row)
          IN /\ Cardinality(at) = 1
             /\ \A j \in at :
                  sections[j].key =
                    IF row.rule = "income" THEN IncomeKey
                    ELSE IF InLoadedGroup(row)
                         THEN GroupKey(CHOOSE g \in row.groupId : TRUE)
                         ELSE UnassignedKey
     /\ SpendingBudgeted(sections) = budget.totalBudget

\* a loaded budget screen with an income row that has a groupId, a budgeted
\* spending row whose groupId names no loaded group, and a spending row of a
\* loaded group
C28_Witness ==
  /\ budget.forMonth # NoMonth
  /\ budget.totalBudget > 0
  /\ \E i, j, k \in 1..Len(budget.rows) :
       /\ budget.rows[i].rule = "income" /\ budget.rows[i].groupId # {}
       /\ budget.rows[j].rule = "spending" /\ budget.rows[j].groupId = {GoneGroupId}
       /\ budget.rows[j].budgetAmount # {}
       /\ budget.rows[k].rule = "spending" /\ InLoadedGroup(budget.rows[k])

(***************************************************************************)
(* The month arrows of the settings screen over whole years                *)
(* (src/app/settings.tsx 32-46): the selected month is any month of        *)
(* 2023 .. 2023 + MaxShiftYears, the store holds one category and no       *)
(* budget or one budget in June 2023, and changeMonth is called up to      *)
(* MaxShiftCalls times.                                                    *)
(***************************************************************************)
\* years after 2023 whose months can be selected
MaxShiftYears == 4
\* calls of changeMonth in a run
MaxShiftCalls == 2

ShiftYears == 2023..(2023 + MaxShiftYears)

ShiftKeys == {FormatMonth(y, mm) : y \in ShiftYears, mm \in 1..12}

\* settings screen: changeMonth(delta) up to its first await, on any month
\* of ShiftYears
ChangeMonthAnyYear(delta) ==
  LET next == shiftMonth(month, delta)
  IN /\ next \in ShiftKeys
     /\ CanCall
     /\ month' = next
     /\ loads' = [loads EXCEPT ![FreeSlot] = StartedLoad("changeMonth", next)]
     /\ callsLeft' = callsLeft - 1
     /\ UNCHANGED <<orderVars, settings, alert, history, uiVars, storeVars, viewVars>>

InitShift ==
  /\ categories = {[id |-> 1, name |-> 9, rule |-> "spending", groupId |-> {}]}
  /\ nextCategoryId = 2
  /\ category_groups = {}
  /\ transactions = {}
  /\ monthly_budgets \in
       {{}, {[categoryId |-> 1, month |-> FormatMonth(2023, 6), budgetAmount |-> 1]}}
  /\ month \in ShiftKeys
  /\ Constructed
  /\ callsLeft = MaxShiftCalls

NextShift ==
  \/ \E delta \in {0 - 1, 1} : ChangeMonthAnyYear(delta)
  \/ \E p \in Slots : HasStep(p)
  \/ \E p \in Slots : FindStep(p)
  \/ \E p \in Slots : CopyStep(p)
  \/ \E p \in Slots : ReturnStep(p)

SpecShift == InitShift /\ [][NextShift]_vars

\* a text of four digits, "-" and two digits that number a month 1..12
IsDigit(c) == c \in 48..57

YearNo(k) == (k[1] - 48) * 1000 + (k[2] - 48) * 100 + (k[3] - 48) * 10 + (k[4] - 48)

MonthNo(k) == (k[6] - 48) * 10 + (k[7] - 48)

WellFormedKey(k) ==
  /\ Len(k) = 7
  /\ \A i \in {1, 2, 3, 4, 6, 7} : IsDigit(k[i])
  /\ k[5] = 45
  /\ MonthNo(k) \in 1..12

\* k2 is the key of the month delta months after the month of k
Adjacent(k, delta, k2) ==
  /\ WellFormedKey(k2)
  /\ YearNo(k2) * 12 + MonthNo(k2) = YearNo(k) * 12 + MonthNo(k) + delta

\* C29: for every selected month key, shiftMonth by +1 and by -1 gives the
\* zero-padded YYYY-MM key of the next and of the previous month, the year
\* carried from December to January and back, and shifting the result the
\* other way gives the selected key again; every change of the selected
\* month goes to the key of an adjacent month
C29_ShiftMonthAdjacent ==
  /\ [](\A delta \in {0 - 1, 1} :
          LET next == shiftMonth(month, delta)
          IN /\ WellFormedKey(month)
             /\ Adjacent(month, delta, next)
             /\ shiftMonth(next, 0 - delta) = month)
  /\ [][month' # month =>
          \E delta \in {0 - 1, 1} : Adjacent(month, delta, month')]_vars

\* changeMonth was called on a December and its call is still in flight
\* when the next call has made January of the following year the selected
\* month
C29_Witness ==
  \E y \in ShiftYears :
    /\ loads[1].kind = "changeMonth" /\ loads[1].pc # "idle"
    /\ loads[1].month = FormatMonth(y, 12)
    /\ loads[2].kind = "changeMonth" /\ loads[2].pc # "idle"
    /\ loads[2].month = FormatMonth(y + 1, 1)
    /\ month = FormatMonth(y + 1, 1)

====
